---- MODULE Spec2Model ----
(***************************************************************************)
(* A model of the file-backed FIFO data queue engine (src/src/dataqueue.c) *)
(* over the filesystem adaptor of src/fsal/linux_ext4/fsal.c.              *)
(*                                                                         *)
(* The filesystem is one variable shared by all processes; every process   *)
(* has its own handle table (the static DataQ_FileHandleList).  A public   *)
(* operation is an operator from the state it reads to a record holding    *)
(* the status code, the outputs and the state it leaves behind; an action  *)
(* applies one operation for one caller.                                   *)
(***************************************************************************)
EXTENDS Integers, Sequences, FiniteSets, TLC

(***************************************************************************)
(* Bounds of the model                                                     *)
(***************************************************************************)
\* number of processes of the lock/handle specification
NumProcs == 2
\* largest max_entries a caller passes to Create
MaxEntries == 3
\* length in bytes of the longest payload a caller enqueues
MaxPayload == 2
\* number of successful enqueues explored per queue lifetime
MaxEnq == 4

(***************************************************************************)
(* Program constants                                                       *)
(***************************************************************************)
CODE_STATUS_OK == 0
CODE_ERROR_INVALID_ARG == 1
CODE_ERROR_INVALID_HANDLE == 2
CODE_ERROR_INVALID_SEEK == 3
CODE_ERROR_QUEUE_EXISTS == 4
CODE_ERROR_QUEUE_MISSING == 5
CODE_ERROR_QUEUE_OPENED == 6
CODE_ERROR_QUEUE_CLOSED == 7
CODE_ERROR_QUEUE_IS_EMPTY == 9
CODE_ERROR_QUEUE_IS_BUSY == 10
CODE_ERROR_QUEUE_READ_ONLY == 11
CODE_ERROR_QUEUE_WRITE_ONLY == 12
CODE_ERROR_QUEUE_NOT_SEEKABLE == 13
CODE_ERROR_FS_ACCESS_FAIL == 14
CODE_ERROR_HANDLE_NOT_AVAIL == 15

FLAGS_RANDOM_ACCESS == 2

ACCESS_TYPE_READ_ONLY == 0
ACCESS_TYPE_WRITE_ONLY == 1
ACCESS_TYPE_READ_WRITE == 2
ACCESS_TYPE_MAX == 3

ACCESS_MODE_UNPACKED == 0
ACCESS_MODE_BINARY_PACKED == 1
ACCESS_MODE_MAX == 3

SEEK_TYPE_HEAD == 0
SEEK_TYPE_TAIL == 1
SEEK_TYPE_POSITION == 2
SEEK_TYPE_MAX == 3

DATA_QUEUE_FILE_HANDLE_LIST_MAX == 10
DATA_QUEUE_FILE_HANDLE_INVALID == 0
DATA_QUEUE_LUT_ENTRY_SIZE == 4
\* number of LUT slots of the cache every operation reads and writes
DATAQ_LUT_SLOTS == 256

(***************************************************************************)
(* Small helpers                                                           *)
(***************************************************************************)
Min(a, b) == IF a < b THEN a ELSE b

Max(a, b) == IF a > b THEN a ELSE b

MinOf(S) == CHOOSE x \in S : \A y \in S : x <= y

RECURSIVE Pow10(_)
Pow10(n) == IF n = 0 THEN 1 ELSE 10 * Pow10(n - 1)

\* the caller's payloads: Payload(i) is i bytes, each of value i
Payload(i) == [j \in 1..i |-> i]

\* the shortest and the longest of them
Payloads == { Payload(1), Payload(MaxPayload) }

(***************************************************************************)
(* The filesystem adaptor.  A file is its sequence of bytes; the files of  *)
(* a directory are a function from file name to contents.  A file handle   *)
(* carries an offset that every read and write advances.                   *)
(***************************************************************************)
NoFiles == [n \in {} |-> <<>>]

\* found / not found
FSAL_ListFile(files, file_name) == file_name \in DOMAIN files

\* the bytes read(2) returns for `length` bytes from offset `offs`
FSAL_ReadFile(content, offs, length) ==
    SubSeq(content, offs + 1, Min(offs + length, Len(content)))

\* the file after write(2) of `bytes` at offset `offs` (no truncation)
FSAL_WriteFile(content, offs, bytes) ==
    [i \in 1..Max(Len(content), offs + Len(bytes)) |->
        IF i > offs /\ i <= offs + Len(bytes) THEN bytes[i - offs]
        ELSE IF i <= Len(content) THEN content[i] ELSE 0]

\* open(2) with O_CREAT and without O_EXCL or O_TRUNC: an existing file is
\* opened as it is, a missing one is created empty
FSAL_OpenFileCreate(files, file_name) ==
    IF file_name \in DOMAIN files THEN files
    ELSE (file_name :> <<>>) @@ files

FSAL_DeleteFile(files, file_name) ==
    [n \in (DOMAIN files) \ {file_name} |-> files[n]]

(***************************************************************************)
(* The queue store: header, lookup table and the files of the directory   *)
(***************************************************************************)
ZeroSlot == [i \in 1..DATA_QUEUE_LUT_ENTRY_SIZE |-> 0]

\* DataQ_Hdr_t as DataQ_FifoCreate initialises it
NewHdr(max_entries, max_entry_size, flags) ==
    [ max_entry_size  |-> max_entry_size,
      max_entries     |-> max_entries,
      num_of_entries  |-> 0,
      head_lut_offs   |-> 0,
      tail_lut_offs   |-> 0,
      seek_lut_offs   |-> 0,
      reference_count |-> 0,
      flags           |-> flags ]

\* An array of LUT slots (the .lut file, the fifo_lut_cache buffer) is held
\* as its length in slots and the slots that are not all zero, by offset
\* from 0: every other slot below the length is ZeroSlot.
NoSlots == [i \in {} |-> ZeroSlot]

\* the .lut file DataQ_FifoCreate writes: max_entries zeroed entries
NewLut(max_entries) == [ len |-> max_entries, slots |-> NoSlots ]

\* a name with no directory
NoDir == [ present |-> FALSE, hdr |-> NewHdr(0, 0, 0), lut |-> NewLut(0),
           files |-> NoFiles ]

\* the fifo_lut_cache of an operation: the bytes of .lut read over a zeroed
\* buffer of DATAQ_LUT_SLOTS slots
LutCache(lut) ==
    [ len |-> DATAQ_LUT_SLOTS,
      slots |-> [i \in { j \in DOMAIN lut.slots : j < DATAQ_LUT_SLOTS }
                   |-> lut.slots[i]] ]

\* the .lut file after the whole cache is written over it from offset 0
LutFile(lut, cache) ==
    [ len |-> Max(lut.len, cache.len),
      slots |-> [i \in DOMAIN cache.slots \cup
                       { j \in DOMAIN lut.slots : j >= cache.len }
                   |-> IF i < cache.len /\ i \in DOMAIN cache.slots
                       THEN cache.slots[i] ELSE lut.slots[i]] ]

\* the slot at offset offs of the cache
CacheSlot(cache, offs) ==
    IF offs \in DOMAIN cache.slots THEN cache.slots[offs] ELSE ZeroSlot

\* a faulty variant of CachePut: the slot is not written
CacheKeep(cache, offs, slot) == cache

\* memcpy / memset of one slot at offset offs of the cache
CachePut(cache, offs, slot) ==
    [ len |-> cache.len,
      slots |-> [i \in IF slot = ZeroSlot THEN DOMAIN cache.slots \ {offs}
                       ELSE DOMAIN cache.slots \cup {offs}
                   |-> IF i = offs THEN slot ELSE cache.slots[i]] ]

DigitChar(d) ==
    CASE d = 48 -> "0" [] d = 49 -> "1" [] d = 50 -> "2" [] d = 51 -> "3"
      [] d = 52 -> "4" [] d = 53 -> "5" [] d = 54 -> "6" [] d = 55 -> "7"
      [] d = 56 -> "8" [] d = 57 -> "9" [] OTHER -> "?"

\* the file name a slot's bytes spell when a NUL is put behind them: the
\* characters up to the first zero byte
RECURSIVE SlotName(_, _)
SlotName(slot, i) ==
    IF i > DATA_QUEUE_LUT_ENTRY_SIZE \/ slot[i] = 0 THEN ""
    ELSE DigitChar(slot[i]) \o SlotName(slot, i + 1)

\* a faulty variant of MintTag: the digits of reference_count / 10, so that
\* two consecutive counts can share a tag
MintTagTens(reference_count) ==
    [i \in 1..DATA_QUEUE_LUT_ENTRY_SIZE |->
        48 + (((reference_count \div 10)
                 % Pow10(DATA_QUEUE_LUT_ENTRY_SIZE - i + 1))
                 \div Pow10(DATA_QUEUE_LUT_ENTRY_SIZE - i))]

\* the revolving reference string of a reference count
MintTag(reference_count) ==
    [i \in 1..DATA_QUEUE_LUT_ENTRY_SIZE |->
        48 + ((reference_count % Pow10(DATA_QUEUE_LUT_ENTRY_SIZE - i + 1))
                 \div Pow10(DATA_QUEUE_LUT_ENTRY_SIZE - i))]

(***************************************************************************)
(* The handle table of one process: DataQ_FileHandleList                   *)
(***************************************************************************)
HandleSlots == 0..(DATA_QUEUE_FILE_HANDLE_LIST_MAX - 1)

\* a slot after static initialisation or memset(.., 0, ..): all bytes zero
ClearedSlot == [ name |-> "", handle |-> 0, access |-> 0, mode |-> 0 ]

InitHandleList == [i \in HandleSlots |-> ClearedSlot]

\* the slots the loops of Open and Destroy take as "opened under this name"
OpenedSlots(list, fifo_name) ==
    { i \in HandleSlots : /\ list[i].handle # DATA_QUEUE_FILE_HANDLE_INVALID
                          /\ list[i].name = fifo_name }

\* the slots the allocation loop of Open takes as available
AvailableSlots(list) ==
    { i \in HandleSlots : list[i].handle = DATA_QUEUE_FILE_HANDLE_INVALID }

\* the fields Open stores in the slot it allocates
AllocatedSlot(index, fifo_name, access, mode) ==
    [ name |-> fifo_name, handle |-> index, access |-> access, mode |-> mode ]

\* a caller's handle variable that holds no pointer into the table
NoHandle == -1

\* "handle is one of the addresses &DataQ_FileHandleList[index]"
ValidHandle(h) == h \in HandleSlots

(***************************************************************************)
(* DataQ_FifoCreate                                                        *)
(***************************************************************************)
DataQ_FifoCreate(dirs, fifo_name, max_entries, max_entry_size, flags) ==
    IF max_entries = 0 \/ max_entry_size = 0
    THEN [ status |-> CODE_ERROR_INVALID_ARG, dirs |-> dirs ]
    ELSE IF dirs[fifo_name].present
    THEN [ status |-> CODE_ERROR_QUEUE_EXISTS, dirs |-> dirs ]
    ELSE [ status |-> CODE_STATUS_OK,
           dirs |-> [dirs EXCEPT ![fifo_name] =
                       [ present |-> TRUE,
                         hdr |-> NewHdr(max_entries, max_entry_size, flags),
                         lut |-> NewLut(max_entries),
                         files |-> NoFiles ]] ]

(***************************************************************************)
(* DataQ_FifoCreate on a filesystem whose calls can fail                   *)
(***************************************************************************)
\* the filesystem step of DataQ_FifoCreate that fails: none, the mkdir, the
\* chdir into the new directory, the open, write or close of .header, the
\* open of .lut, the first write to .lut
CreateFaults == { "none", "mkdir", "chdir", "header", "lut_open", "lut_write" }

\* those of them that come after the directory has been created
FaultsAfterMkdir == CreateFaults \ { "none", "mkdir" }

\* a directory that holds no file
EmptyDir == [NoDir EXCEPT !.present = TRUE]

\* `removed` says that the FSAL_RemoveDirectory of the rollback succeeded;
\* when it failed the directory stays as the failed step left it
DataQ_FifoCreateFault(dirs, fifo_name, max_entries, max_entry_size, flags, fault, removed) ==
    LET ok == DataQ_FifoCreate(dirs, fifo_name, max_entries, max_entry_size,
                               flags)
        failed(dir) == [ status |-> CODE_ERROR_FS_ACCESS_FAIL,
                         dirs |-> [dirs EXCEPT ![fifo_name] = dir] ]
        headed == [EmptyDir EXCEPT
                     !.hdr = NewHdr(max_entries, max_entry_size, flags)]
        rollback(dir) == IF removed THEN NoDir ELSE dir
    IN  IF ok.status # CODE_STATUS_OK \/ fault = "none" THEN ok
        ELSE IF fault = "mkdir" THEN failed(NoDir)
        ELSE IF fault = "chdir" THEN failed(EmptyDir)
        ELSE IF fault = "header" THEN failed(rollback(EmptyDir))
        ELSE failed(rollback(headed))

(***************************************************************************)
(* DataQ_FifoDestroy                                                       *)
(***************************************************************************)
AnyLockFile(files) ==
    \/ FSAL_ListFile(files, ".rolock")
    \/ FSAL_ListFile(files, ".wolock")
    \/ FSAL_ListFile(files, ".rwlock")

\* a faulty variant of DataQ_FifoDestroy: the directory of a queue that is
\* locked by another process is removed before QUEUE_IS_BUSY is returned
DataQ_FifoDestroyLocked(dirs, list, fifo_name) ==
    IF ~dirs[fifo_name].present
    THEN [ status |-> CODE_STATUS_OK, dirs |-> dirs ]
    ELSE IF OpenedSlots(list, fifo_name) # {}
    THEN [ status |-> CODE_ERROR_QUEUE_IS_BUSY, dirs |-> dirs ]
    ELSE IF AnyLockFile(dirs[fifo_name].files)
    THEN [ status |-> CODE_ERROR_QUEUE_IS_BUSY,
           dirs |-> [dirs EXCEPT ![fifo_name] = NoDir] ]
    ELSE [ status |-> CODE_STATUS_OK,
           dirs |-> [dirs EXCEPT ![fifo_name] = NoDir] ]

DataQ_FifoDestroy(dirs, list, fifo_name) ==
    IF ~dirs[fifo_name].present
    THEN [ status |-> CODE_STATUS_OK, dirs |-> dirs ]
    ELSE IF OpenedSlots(list, fifo_name) # {}
    THEN [ status |-> CODE_ERROR_QUEUE_IS_BUSY, dirs |-> dirs ]
    ELSE IF AnyLockFile(dirs[fifo_name].files)
    THEN [ status |-> CODE_ERROR_QUEUE_IS_BUSY, dirs |-> dirs ]
    ELSE [ status |-> CODE_STATUS_OK,
           dirs |-> [dirs EXCEPT ![fifo_name] = NoDir] ]

(***************************************************************************)
(* DataQ_FifoOpen                                                          *)
(***************************************************************************)
\* a faulty variant of LockedAgainst: .rolock forbids nothing
LockedAgainstWriters(files, access) ==
    FSAL_ListFile(files, ".wolock") \/ FSAL_ListFile(files, ".rwlock")

\* the lock-file test of Open: a lock that forbids the requested access
LockedAgainst(files, access) ==
    \/ FSAL_ListFile(files, ".wolock")
    \/ FSAL_ListFile(files, ".rwlock")
    \/ (FSAL_ListFile(files, ".rolock") /\ access # ACCESS_TYPE_READ_ONLY)

\* the first user of a read-only queue: create .rolock, write users = 1
CreateRoLock(files) ==
    LET made == FSAL_OpenFileCreate(files, ".rolock")
    IN  [ ok |-> TRUE,
          files |-> [made EXCEPT ![".rolock"] = FSAL_WriteFile(@, 0, <<1>>)] ]

\* a further user: open .rolock, read one byte, increment it, and write one
\* byte through the same file handle, whose offset the read has advanced
IncrementRoLock(files) ==
    LET content == files[".rolock"]
        got     == FSAL_ReadFile(content, 0, 1)
    IN  IF Len(got) = 1
        THEN [ ok |-> TRUE,
               files |-> [files EXCEPT ![".rolock"] =
                            FSAL_WriteFile(content, Len(got),
                                           << (got[1] + 1) % 256 >>)] ]
        ELSE [ ok |-> FALSE, files |-> files ]

\* "create the appropriate lock file"
AddLockFile(files, access) ==
    IF access = ACCESS_TYPE_READ_ONLY
    THEN IF ~FSAL_ListFile(files, ".rolock") THEN CreateRoLock(files)
         ELSE IncrementRoLock(files)
    ELSE IF access = ACCESS_TYPE_WRITE_ONLY
    THEN [ ok |-> TRUE, files |-> FSAL_OpenFileCreate(files, ".wolock") ]
    ELSE [ ok |-> TRUE, files |-> FSAL_OpenFileCreate(files, ".rwlock") ]

\* `out` is the value of the caller's handle variable before the call; the
\* result's handle is its value after the call.
DataQ_FifoOpen(dirs, list, fifo_name, access, mode, out) ==
    LET unchanged(code) ==
            [ status |-> code, dirs |-> dirs, list |-> list, handle |-> out ]
    IN
    IF access >= ACCESS_TYPE_MAX \/ mode >= ACCESS_MODE_MAX
    THEN unchanged(CODE_ERROR_INVALID_ARG)
    ELSE IF ~dirs[fifo_name].present
    THEN unchanged(CODE_ERROR_QUEUE_MISSING)
    ELSE IF OpenedSlots(list, fifo_name) # {}
    THEN LET index == MinOf(OpenedSlots(list, fifo_name))
         IN  IF access = list[index].access /\ mode = list[index].mode
             THEN \* memcpy( *fifo_handle, &DataQ_FileHandleList[index] )
                  [ status |-> CODE_STATUS_OK, dirs |-> dirs,
                    list |-> IF ValidHandle(out)
                             THEN [list EXCEPT ![out] = list[index]]
                             ELSE list,
                    handle |-> out ]
             ELSE unchanged(CODE_ERROR_QUEUE_OPENED)
    ELSE IF LockedAgainst(dirs[fifo_name].files, access)
    THEN unchanged(CODE_ERROR_QUEUE_IS_BUSY)
    ELSE LET lock  == AddLockFile(dirs[fifo_name].files, access)
             after == [dirs EXCEPT ![fifo_name].files = lock.files]
         IN  IF ~lock.ok
             THEN [ status |-> CODE_ERROR_FS_ACCESS_FAIL, dirs |-> after,
                    list |-> list, handle |-> out ]
             ELSE IF AvailableSlots(list) # {}
             THEN LET index == MinOf(AvailableSlots(list))
                  IN  [ status |-> CODE_STATUS_OK, dirs |-> after,
                        list |-> [list EXCEPT ![index] =
                                    AllocatedSlot(index, fifo_name, access, mode)],
                        handle |-> index ]
             ELSE [ status |-> CODE_ERROR_HANDLE_NOT_AVAIL, dirs |-> after,
                    list |-> list, handle |-> out ]

(***************************************************************************)
(* DataQ_FifoClose                                                         *)
(***************************************************************************)
\* .rolock as Close leaves it: read one byte, decrement it, write one byte
\* through the same file handle, delete the file when the byte read was 1.
\* A .rolock that yields no byte leaves `users` uninitialised: the file is
\* then deleted or kept as the stack decides (keep |-> either).
DecrementRoLock(files, keep) ==
    IF ~FSAL_ListFile(files, ".rolock") THEN files
    ELSE LET content == files[".rolock"]
             got     == FSAL_ReadFile(content, 0, 1)
         IN  IF Len(got) = 1
             THEN LET users == (got[1] - 1) % 256
                      wrote == [files EXCEPT ![".rolock"] =
                                  FSAL_WriteFile(content, Len(got), <<users>>)]
                  IN  IF users = 0 THEN FSAL_DeleteFile(wrote, ".rolock")
                      ELSE wrote
             ELSE IF keep THEN files ELSE FSAL_DeleteFile(files, ".rolock")

\* the lock files of the directory once Close has gone through all three
RemoveLockFiles(files, keep) ==
    LET ro == DecrementRoLock(files, keep)
        wo == IF FSAL_ListFile(ro, ".wolock") THEN FSAL_DeleteFile(ro, ".wolock")
              ELSE ro
    IN  IF FSAL_ListFile(wo, ".rwlock") THEN FSAL_DeleteFile(wo, ".rwlock")
        ELSE wo

DataQ_FifoClose(dirs, list, h, keep) ==
    IF h = NoHandle
    THEN [ status |-> CODE_ERROR_INVALID_ARG, dirs |-> dirs, list |-> list ]
    ELSE IF ~(list[h].name \in DOMAIN dirs /\ dirs[list[h].name].present)
    THEN [ status |-> CODE_ERROR_QUEUE_MISSING, dirs |-> dirs, list |-> list ]
    ELSE LET fifo_name == list[h].name
         IN  [ status |-> CODE_STATUS_OK,
               dirs |-> [dirs EXCEPT ![fifo_name].files =
                           RemoveLockFiles(@, keep)],
               list |-> [list EXCEPT ![h] = ClearedSlot] ]

(***************************************************************************)
(* Ring arithmetic on the header                                           *)
(***************************************************************************)
\* a faulty variant of NextOffs: no wrap at the end of the ring
NextOffsNoWrap(offs, max_entries) == offs + 1

\* an offset advanced by one slot, wrapping at max_entries
NextOffs(offs, max_entries) == (offs + 1) % max_entries

\* uint8_t arithmetic
U8(x) == x % 256

\* uint16_t arithmetic
U16(x) == x % 65536

\* the % of C on int: the result has the sign of the dividend
CRem(a, b) == IF a >= 0 THEN a % b ELSE 0 - ((0 - a) % b)

\* "determine if fifo is empty"
FifoIsEmpty(hdr) ==
    hdr.num_of_entries = 0 /\ hdr.head_lut_offs = hdr.tail_lut_offs

\* a faulty variant of FifoIsFull: the full queue is never recognised, so an
\* enqueue on it links the entry as if there were room
FifoIsFullNever(hdr) == FALSE

\* "determine if fifo is already full"
FifoIsFull(hdr) ==
    /\ hdr.num_of_entries = hdr.max_entries
    /\ \/ (hdr.head_lut_offs = 0 /\ hdr.tail_lut_offs = hdr.max_entries - 1)
       \/ (hdr.head_lut_offs > 0 /\ hdr.tail_lut_offs = hdr.head_lut_offs - 1)

\* a faulty variant of SeekPastHead: the seek offset is left where it is
SeekStays(hdr) == hdr.seek_lut_offs

\* the seek offset when the entry at the head is about to leave the queue
SeekPastHead(hdr) ==
    IF hdr.seek_lut_offs = hdr.head_lut_offs
    THEN NextOffs(hdr.seek_lut_offs, hdr.max_entries)
    ELSE hdr.seek_lut_offs

\* a faulty variant of LinkEntry: the overwrite of the oldest entry counts
\* the new entry as well
LinkEntryCounting(hdr, cache, entry) ==
    IF FifoIsEmpty(hdr)
    THEN [ hdr   |-> [hdr EXCEPT !.num_of_entries = U8(@ + 1)],
           cache |-> CachePut(cache, hdr.tail_lut_offs, entry) ]
    ELSE LET tail == NextOffs(hdr.tail_lut_offs, hdr.max_entries)
         IN  IF FifoIsFull(hdr)
             THEN [ hdr   |-> [hdr EXCEPT
                                 !.seek_lut_offs = SeekPastHead(hdr),
                                 !.head_lut_offs = NextOffs(@, hdr.max_entries),
                                 !.tail_lut_offs = tail,
                                 !.num_of_entries = U8(@ + 1)],
                    cache |-> CachePut(CachePut(cache, hdr.head_lut_offs, ZeroSlot),
                                       tail, entry) ]
             ELSE [ hdr   |-> [hdr EXCEPT !.tail_lut_offs = tail,
                                          !.num_of_entries = U8(@ + 1)],
                    cache |-> CachePut(cache, tail, entry) ]

\* a faulty variant of LinkEntry: an added entry is stored in the slot of
\* the old tail
LinkEntryAtOldTail(hdr, cache, entry) ==
    IF FifoIsEmpty(hdr)
    THEN [ hdr   |-> [hdr EXCEPT !.num_of_entries = U8(@ + 1)],
           cache |-> CachePut(cache, hdr.tail_lut_offs, entry) ]
    ELSE IF FifoIsFull(hdr)
    THEN LET tail == NextOffs(hdr.tail_lut_offs, hdr.max_entries)
         IN  [ hdr   |-> [hdr EXCEPT
                            !.seek_lut_offs = SeekPastHead(hdr),
                            !.head_lut_offs = NextOffs(@, hdr.max_entries),
                            !.tail_lut_offs = tail],
               cache |-> CachePut(CachePut(cache, hdr.head_lut_offs, ZeroSlot),
                                  tail, entry) ]
    ELSE LET tail == NextOffs(hdr.tail_lut_offs, hdr.max_entries)
         IN  [ hdr   |-> [hdr EXCEPT !.tail_lut_offs = tail,
                                     !.num_of_entries = U8(@ + 1)],
               cache |-> CachePut(cache, hdr.tail_lut_offs, entry) ]

\* header and LUT cache after the new entry `entry` has been linked in
LinkEntry(hdr, cache, entry) ==
    IF FifoIsEmpty(hdr)
    THEN [ hdr   |-> [hdr EXCEPT !.num_of_entries = U8(@ + 1)],
           cache |-> CachePut(cache, hdr.tail_lut_offs, entry) ]
    ELSE IF FifoIsFull(hdr)
    THEN LET tail == NextOffs(hdr.tail_lut_offs, hdr.max_entries)
         IN  [ hdr   |-> [hdr EXCEPT
                            !.seek_lut_offs = SeekPastHead(hdr),
                            !.head_lut_offs = NextOffs(@, hdr.max_entries),
                            !.tail_lut_offs = tail],
               cache |-> CachePut(CachePut(cache, hdr.head_lut_offs, ZeroSlot),
                                  tail, entry) ]
    ELSE LET tail == NextOffs(hdr.tail_lut_offs, hdr.max_entries)
         IN  [ hdr   |-> [hdr EXCEPT !.tail_lut_offs = tail,
                                     !.num_of_entries = U8(@ + 1)],
               cache |-> CachePut(cache, tail, entry) ]

\* a faulty variant of UnlinkHead: the slot of the entry is not invalidated
UnlinkHeadKeepSlot(hdr, cache) ==
    [ hdr   |-> [hdr EXCEPT !.seek_lut_offs = SeekPastHead(hdr),
                            !.head_lut_offs = NextOffs(@, hdr.max_entries),
                            !.num_of_entries = U8(@ - 1)],
      cache |-> cache ]

\* a faulty variant of UnlinkHead: the head offset is not advanced
UnlinkHeadStuck(hdr, cache) ==
    [ hdr   |-> [hdr EXCEPT !.num_of_entries = U8(@ - 1)],
      cache |-> CachePut(cache, hdr.head_lut_offs, ZeroSlot) ]

\* header and LUT cache after the entry at the head has been unlinked
UnlinkHead(hdr, cache) ==
    [ hdr   |-> [hdr EXCEPT !.seek_lut_offs = SeekPastHead(hdr),
                            !.head_lut_offs = NextOffs(@, hdr.max_entries),
                            !.num_of_entries = U8(@ - 1)],
      cache |-> CachePut(cache, hdr.head_lut_offs, ZeroSlot) ]

(***************************************************************************)
(* The checks every data operation starts with                             *)
(***************************************************************************)
\* the queue directory a handle's slot names, when there is one
SlotDirPresent(dirs, list, h) ==
    list[h].name \in DOMAIN dirs /\ dirs[list[h].name].present

WriterLocked(files) ==
    FSAL_ListFile(files, ".wolock") \/ FSAL_ListFile(files, ".rwlock")

ReaderLocked(files) ==
    FSAL_ListFile(files, ".rolock") \/ FSAL_ListFile(files, ".rwlock")

WriteAccess(access) ==
    access = ACCESS_TYPE_WRITE_ONLY \/ access = ACCESS_TYPE_READ_WRITE

(***************************************************************************)
(* DataQ_FifoEnqueue                                                       *)
(***************************************************************************)
DataQ_FifoEnqueue(dirs, list, h, data, size) ==
    LET unchanged(code) == [ status |-> code, dirs |-> dirs ]
    IN
    IF h = NoHandle THEN unchanged(CODE_ERROR_INVALID_ARG)
    ELSE IF size = 0 THEN unchanged(CODE_ERROR_INVALID_ARG)
    ELSE IF ~ValidHandle(h) THEN unchanged(CODE_ERROR_INVALID_HANDLE)
    ELSE IF ~WriteAccess(list[h].access)
    THEN unchanged(CODE_ERROR_QUEUE_READ_ONLY)
    ELSE IF ~SlotDirPresent(dirs, list, h)
    THEN unchanged(CODE_ERROR_QUEUE_MISSING)
    ELSE IF ~WriterLocked(dirs[list[h].name].files)
    THEN unchanged(CODE_ERROR_QUEUE_CLOSED)
    ELSE LET dir     == dirs[list[h].name]
             counted == [dir.hdr EXCEPT !.reference_count = U16(@ + 1)]
             entry   == MintTag(counted.reference_count)
             file    == SlotName(entry, 1)
             made    == FSAL_OpenFileCreate(dir.files, file)
             stored  == [made EXCEPT ![file] =
                           FSAL_WriteFile(@, 0, SubSeq(data, 1, size))]
             linked  == LinkEntry(counted, LutCache(dir.lut), entry)
         IN  [ status |-> CODE_STATUS_OK,
               dirs |-> [dirs EXCEPT ![list[h].name] =
                           [ present |-> TRUE, hdr |-> linked.hdr,
                             lut |-> LutFile(dir.lut, linked.cache),
                             files |-> stored ]] ]

(***************************************************************************)
(* DataQ_FifoDequeue                                                       *)
(***************************************************************************)
\* the caller's size variable after "*size = FSAL_ReadFile(..) < 0" for a
\* read that returned `count` bytes: the value of the comparison
SizeAfterDequeue(count) == IF count < 0 THEN 1 ELSE 0

\* data is what the call copied into the caller's buffer, size the caller's
\* size variable after the call
DataQ_FifoDequeue(dirs, list, h, size) ==
    LET unchanged(code) ==
            [ status |-> code, dirs |-> dirs, data |-> <<>>, size |-> size ]
    IN
    IF h = NoHandle THEN unchanged(CODE_ERROR_INVALID_ARG)
    ELSE IF ~ValidHandle(h) THEN unchanged(CODE_ERROR_INVALID_HANDLE)
    ELSE IF ~WriteAccess(list[h].access)
    THEN unchanged(CODE_ERROR_QUEUE_READ_ONLY)
    ELSE IF ~SlotDirPresent(dirs, list, h)
    THEN unchanged(CODE_ERROR_QUEUE_MISSING)
    ELSE IF ~WriterLocked(dirs[list[h].name].files)
    THEN unchanged(CODE_ERROR_QUEUE_CLOSED)
    ELSE LET dir   == dirs[list[h].name]
             cache == LutCache(dir.lut)
             file  == SlotName(CacheSlot(cache, dir.hdr.head_lut_offs), 1)
         IN  IF FifoIsEmpty(dir.hdr)
             THEN unchanged(CODE_ERROR_QUEUE_IS_EMPTY)
             ELSE IF ~FSAL_ListFile(dir.files, file)
             THEN unchanged(CODE_ERROR_FS_ACCESS_FAIL)
             ELSE LET got      == FSAL_ReadFile(dir.files[file], 0, size)
                      unlinked == UnlinkHead(dir.hdr, cache)
                  IN  [ status |-> CODE_STATUS_OK,
                        dirs |-> [dirs EXCEPT ![list[h].name] =
                                    [ present |-> TRUE, hdr |-> unlinked.hdr,
                                      lut |-> LutFile(dir.lut, unlinked.cache),
                                      files |-> FSAL_DeleteFile(dir.files, file) ]],
                        data |-> got,
                        size |-> SizeAfterDequeue(Len(got)) ]

\* the filesystem steps of Dequeue that can fail once the payload file of
\* the head entry has been deleted
DequeueFaults == { "none", "lut", "header" }

\* a faulty variant of DataQ_FifoDequeueFault: a failed rewrite puts the
\* deleted payload file back
DataQ_FifoDequeueUndo(dirs, list, h, size, fault) ==
    LET ok == DataQ_FifoDequeue(dirs, list, h, size)
    IN  IF ok.status # CODE_STATUS_OK \/ fault = "none" THEN ok
        ELSE [ok EXCEPT !.status = CODE_ERROR_FS_ACCESS_FAIL, !.dirs = dirs]

\* DataQ_FifoDequeue on a filesystem that fails the rewrite of .lut or of
\* .header: the payload has been copied out and its file deleted, the files
\* rewritten before the failing step are as the call leaves them, the
\* failing one and those after it are as they were
DataQ_FifoDequeueFault(dirs, list, h, size, fault) ==
    LET ok  == DataQ_FifoDequeue(dirs, list, h, size)
        q   == list[h].name
        cut == [dirs[q] EXCEPT !.files = ok.dirs[q].files]
    IN  IF ok.status # CODE_STATUS_OK \/ fault = "none" THEN ok
        ELSE IF fault = "lut"
        THEN [ok EXCEPT !.status = CODE_ERROR_FS_ACCESS_FAIL,
                        !.dirs = [dirs EXCEPT ![q] = cut]]
        ELSE [ok EXCEPT !.status = CODE_ERROR_FS_ACCESS_FAIL,
                        !.dirs = [dirs EXCEPT ![q] =
                                    [cut EXCEPT !.lut = ok.dirs[q].lut]]]

(***************************************************************************)
(* DataQ_FifoSeek                                                          *)
(***************************************************************************)
\* the seek offset a successful Seek stores
SeekTarget(hdr, seek_type, position) ==
    IF seek_type = SEEK_TYPE_HEAD THEN hdr.head_lut_offs
    ELSE IF seek_type = SEEK_TYPE_TAIL THEN hdr.tail_lut_offs
    ELSE U8(CRem(hdr.head_lut_offs + position, hdr.max_entries))

DataQ_FifoSeek(dirs, list, h, seek_type, position) ==
    LET unchanged(code) == [ status |-> code, dirs |-> dirs ]
    IN
    IF h = NoHandle THEN unchanged(CODE_ERROR_INVALID_ARG)
    ELSE IF seek_type >= SEEK_TYPE_MAX THEN unchanged(CODE_ERROR_INVALID_ARG)
    ELSE IF ~ValidHandle(h) THEN unchanged(CODE_ERROR_INVALID_HANDLE)
    ELSE IF list[h].access = ACCESS_TYPE_WRITE_ONLY
    THEN unchanged(CODE_ERROR_QUEUE_WRITE_ONLY)
    ELSE IF ~SlotDirPresent(dirs, list, h)
    THEN unchanged(CODE_ERROR_QUEUE_MISSING)
    ELSE IF ~ReaderLocked(dirs[list[h].name].files)
    THEN unchanged(CODE_ERROR_QUEUE_CLOSED)
    ELSE LET hdr == dirs[list[h].name].hdr
         IN  IF (hdr.flags \div FLAGS_RANDOM_ACCESS) % 2 = 0
             THEN unchanged(CODE_ERROR_QUEUE_NOT_SEEKABLE)
             ELSE IF FifoIsEmpty(hdr)
             THEN unchanged(CODE_ERROR_QUEUE_IS_EMPTY)
             ELSE IF position >= hdr.num_of_entries
             THEN unchanged(CODE_ERROR_INVALID_SEEK)
             ELSE [ status |-> CODE_STATUS_OK,
                    dirs |-> [dirs EXCEPT ![list[h].name].hdr.seek_lut_offs =
                                SeekTarget(hdr, seek_type, position)] ]

(***************************************************************************)
(* DataQ_FifoGetEntry                                                      *)
(***************************************************************************)
\* The reference string is terminated one byte too far, so the byte after
\* the tag is whatever the stack holds: `terminated` says it was a NUL.
DataQ_FifoGetEntry(dirs, list, h, size, terminated) ==
    LET unchanged(code) ==
            [ status |-> code, dirs |-> dirs, data |-> <<>>, size |-> size ]
    IN
    IF h = NoHandle THEN unchanged(CODE_ERROR_INVALID_ARG)
    ELSE IF ~ValidHandle(h) THEN unchanged(CODE_ERROR_INVALID_HANDLE)
    ELSE IF list[h].access = ACCESS_TYPE_WRITE_ONLY
    THEN unchanged(CODE_ERROR_QUEUE_WRITE_ONLY)
    ELSE IF ~SlotDirPresent(dirs, list, h)
    THEN unchanged(CODE_ERROR_QUEUE_MISSING)
    ELSE IF ~ReaderLocked(dirs[list[h].name].files)
    THEN unchanged(CODE_ERROR_QUEUE_CLOSED)
    ELSE LET dir   == dirs[list[h].name]
             hdr   == dir.hdr
             slot  == CacheSlot(LutCache(dir.lut), hdr.seek_lut_offs)
             file  == IF terminated \/ slot = ZeroSlot THEN SlotName(slot, 1)
                      ELSE SlotName(slot, 1) \o "?"
         IN  IF FifoIsEmpty(hdr)
             THEN unchanged(CODE_ERROR_QUEUE_IS_EMPTY)
             ELSE IF ~FSAL_ListFile(dir.files, file)
             THEN unchanged(CODE_ERROR_FS_ACCESS_FAIL)
             ELSE [ status |-> CODE_STATUS_OK,
                    dirs |-> [dirs EXCEPT ![list[h].name].hdr.seek_lut_offs =
                                IF hdr.seek_lut_offs # hdr.tail_lut_offs
                                THEN NextOffs(hdr.seek_lut_offs, hdr.max_entries)
                                ELSE hdr.seek_lut_offs],
                    data |-> FSAL_ReadFile(dir.files[file], 0, size),
                    size |-> size ]

(***************************************************************************)
(* DataQ_FifoGetLength                                                     *)
(***************************************************************************)
DataQ_FifoGetLength(dirs, list, h) ==
    LET failed(code) == [ status |-> code, length |-> 0 ]
    IN
    IF h = NoHandle THEN failed(CODE_ERROR_INVALID_ARG)
    ELSE IF ~ValidHandle(h) THEN failed(CODE_ERROR_INVALID_HANDLE)
    ELSE IF ~SlotDirPresent(dirs, list, h)
    THEN failed(CODE_ERROR_QUEUE_MISSING)
    ELSE IF ~AnyLockFile(dirs[list[h].name].files)
    THEN failed(CODE_ERROR_QUEUE_CLOSED)
    ELSE [ status |-> CODE_STATUS_OK,
           length |-> dirs[list[h].name].hdr.num_of_entries ]

(***************************************************************************)
(* State                                                                   *)
(***************************************************************************)
Procs == 1..NumProcs

QNames == { "q1", "q2" }

AccessTypes ==
    { ACCESS_TYPE_READ_ONLY, ACCESS_TYPE_WRITE_ONLY, ACCESS_TYPE_READ_WRITE }

AccessModes == { ACCESS_MODE_UNPACKED, ACCESS_MODE_BINARY_PACKED }

SeekTypes == { SEEK_TYPE_HEAD, SEEK_TYPE_TAIL, SEEK_TYPE_POSITION }

VARIABLES
    dirs,      \* the filesystem: queue name -> directory
    lists,     \* process -> its DataQ_FileHandleList
    hvar,      \* process, queue -> the caller's handle variable for that queue
    opened,    \* process, queue -> the caller's Open returned OK, its Close not yet
    enqd,      \* queue -> payloads of the successful Enqueues since Create
    deqd,      \* queue -> what the successful Dequeues since Create returned
    mixed,     \* queue -> an Enqueue succeeded after a Dequeue had succeeded
    run        \* process -> where it stands in a DataQ_FifoOpen run step by step

vars == << dirs, lists, hvar, opened, enqd, deqd, mixed, run >>

\* a process that is in no call: users is the local of DataQ_FifoOpen
NotRunning ==
    [ pc |-> "idle", name |-> "", access |-> 0, mode |-> 0, users |-> 1 ]

Init ==
    /\ dirs = [q \in QNames |-> NoDir]
    /\ lists = [p \in Procs |-> InitHandleList]
    /\ hvar = [p \in Procs |-> [q \in QNames |-> NoHandle]]
    /\ opened = [p \in Procs |-> [q \in QNames |-> FALSE]]
    /\ enqd = [q \in QNames |-> <<>>]
    /\ deqd = [q \in QNames |-> <<>>]
    /\ mixed = [q \in QNames |-> FALSE]
    /\ run = [p \in Procs |-> NotRunning]

(***************************************************************************)
(* Actions: one public operation called by one process.  A caller keeps    *)
(* one handle variable per queue name and passes it to every operation it  *)
(* means for that queue.                                                   *)
(***************************************************************************)
CreateCall(p, q, max_entries, max_entry_size, flags) ==
    LET r == DataQ_FifoCreate(dirs, q, max_entries, max_entry_size, flags)
        ok == r.status = CODE_STATUS_OK
    IN  /\ dirs' = r.dirs
        /\ enqd' = IF ok THEN [enqd EXCEPT ![q] = <<>>] ELSE enqd
        /\ deqd' = IF ok THEN [deqd EXCEPT ![q] = <<>>] ELSE deqd
        /\ mixed' = IF ok THEN [mixed EXCEPT ![q] = FALSE] ELSE mixed
        /\ UNCHANGED << lists, hvar, opened, run >>

DestroyCall(p, q) ==
    LET r == DataQ_FifoDestroy(dirs, lists[p], q)
        ok == r.status = CODE_STATUS_OK
    IN  /\ dirs' = r.dirs
        /\ enqd' = IF ok THEN [enqd EXCEPT ![q] = <<>>] ELSE enqd
        /\ deqd' = IF ok THEN [deqd EXCEPT ![q] = <<>>] ELSE deqd
        /\ mixed' = IF ok THEN [mixed EXCEPT ![q] = FALSE] ELSE mixed
        /\ UNCHANGED << lists, hvar, opened, run >>

OpenCall(p, q, access, mode) ==
    LET r == DataQ_FifoOpen(dirs, lists[p], q, access, mode, hvar[p][q])
    IN  /\ dirs' = r.dirs
        /\ lists' = [lists EXCEPT ![p] = r.list]
        /\ hvar' = [hvar EXCEPT ![p][q] = r.handle]
        /\ opened' = IF r.status = CODE_STATUS_OK
                     THEN [opened EXCEPT ![p][q] = TRUE] ELSE opened
        /\ UNCHANGED << enqd, deqd, mixed, run >>

CloseCall(p, q) ==
    /\ hvar[p][q] # NoHandle
    /\ \E keep \in BOOLEAN :
         LET r == DataQ_FifoClose(dirs, lists[p], hvar[p][q], keep)
         IN  /\ dirs' = r.dirs
             /\ lists' = [lists EXCEPT ![p] = r.list]
             /\ opened' = IF r.status = CODE_STATUS_OK
                          THEN [opened EXCEPT ![p][q] = FALSE] ELSE opened
    /\ UNCHANGED << hvar, enqd, deqd, mixed, run >>

GetLengthCall(p, q) ==
    /\ hvar[p][q] # NoHandle
    /\ UNCHANGED vars

EnqueueCall(p, q, data, size) ==
    /\ hvar[p][q] # NoHandle
    /\ Len(enqd[q]) < MaxEnq
    /\ LET r == DataQ_FifoEnqueue(dirs, lists[p], hvar[p][q], data, size)
           ok == r.status = CODE_STATUS_OK
       IN  /\ dirs' = r.dirs
           /\ enqd' = IF ok THEN [enqd EXCEPT ![q] = Append(@, data)] ELSE enqd
           /\ mixed' = IF ok /\ Len(deqd[q]) > 0
                       THEN [mixed EXCEPT ![q] = TRUE] ELSE mixed
    /\ UNCHANGED << lists, hvar, opened, deqd, run >>

DequeueCall(p, q, size) ==
    /\ hvar[p][q] # NoHandle
    /\ LET r == DataQ_FifoDequeue(dirs, lists[p], hvar[p][q], size)
           ok == r.status = CODE_STATUS_OK
       IN  /\ dirs' = r.dirs
           /\ deqd' = IF ok THEN [deqd EXCEPT ![q] = Append(@, r.data)] ELSE deqd
    /\ UNCHANGED << lists, hvar, opened, enqd, mixed, run >>

SeekCall(p, q, seek_type, position) ==
    /\ hvar[p][q] # NoHandle
    /\ LET r == DataQ_FifoSeek(dirs, lists[p], hvar[p][q], seek_type, position)
       IN  dirs' = r.dirs
    /\ UNCHANGED << lists, hvar, opened, enqd, deqd, mixed, run >>

GetEntryCall(p, q, size) ==
    /\ hvar[p][q] # NoHandle
    /\ \E terminated \in BOOLEAN :
         LET r == DataQ_FifoGetEntry(dirs, lists[p], hvar[p][q], size, terminated)
         IN  dirs' = r.dirs
    /\ UNCHANGED << lists, hvar, opened, enqd, deqd, mixed, run >>

(***************************************************************************)
(* Spec: the processes create, open, close and destroy one queue, every    *)
(* call atomic.                                                            *)
(***************************************************************************)
LockCalls(P, Q) ==
    \/ \E p \in P, q \in Q : CreateCall(p, q, 1, 1, 0)
    \/ \E p \in P, q \in Q : DestroyCall(p, q)
    \/ \E p \in P, q \in Q, a \in AccessTypes, m \in AccessModes :
          OpenCall(p, q, a, m)
    \/ \E p \in P, q \in Q : CloseCall(p, q)
    \/ \E p \in P, q \in Q : GetLengthCall(p, q)

Next == LockCalls(Procs, {"q1"})

Spec == Init /\ [][Next]_vars

(***************************************************************************)
(* SpecHandles: one process and all the queue names                        *)
(***************************************************************************)
NextHandles == LockCalls({1}, QNames)

SpecHandles == Init /\ [][NextHandles]_vars

(***************************************************************************)
(* SpecFifo: one process working on one queue through one handle at a     *)
(* time, with every data operation                                         *)
(***************************************************************************)
\* the buffer sizes a caller passes to Dequeue and GetEntry
BufferSizes == { 1, MaxPayload }

NextFifo ==
    \/ \E n \in 0..MaxEntries, f \in { 0, FLAGS_RANDOM_ACCESS } :
          CreateCall(1, "q1", n, MaxPayload, f)
    \/ DestroyCall(1, "q1")
    \/ \E a \in AccessTypes : OpenCall(1, "q1", a, ACCESS_MODE_BINARY_PACKED)
    \/ CloseCall(1, "q1")
    \/ GetLengthCall(1, "q1")
    \/ \E d \in Payloads : EnqueueCall(1, "q1", d, Len(d))
    \/ \E n \in BufferSizes : DequeueCall(1, "q1", n)
    \/ \E t \in SeekTypes, i \in 0..MaxEntries : SeekCall(1, "q1", t, i)
    \/ \E n \in BufferSizes : GetEntryCall(1, "q1", n)

SpecFifo == Init /\ [][NextFifo]_vars

(***************************************************************************)
(* DataQ_FifoOpen step by step: one action per filesystem call, so that    *)
(* the calls of two processes interleave.  run[p] holds the arguments and  *)
(* the local `users` of the run; a run that returns goes back to "idle".   *)
(***************************************************************************)
\* the run returns without a handle
OpenReturn(p) ==
    /\ run' = [run EXCEPT ![p] = NotRunning]
    /\ UNCHANGED << dirs, lists, hvar, opened, enqd, deqd, mixed >>

\* the run goes on to its next filesystem call
OpenGoto(p, pc) ==
    /\ run' = [run EXCEPT ![p].pc = pc]
    /\ UNCHANGED << dirs, lists, hvar, opened, enqd, deqd, mixed >>

\* argument checks, FSAL_ChangeDirectory and the scan of the handle table
OpenBegin(p, q, access, mode) ==
    /\ run[p].pc = "idle"
    /\ IF \/ access >= ACCESS_TYPE_MAX \/ mode >= ACCESS_MODE_MAX
          \/ ~dirs[q].present
          \/ OpenedSlots(lists[p], q) # {}
       THEN LET r == DataQ_FifoOpen(dirs, lists[p], q, access, mode, hvar[p][q])
            IN  /\ lists' = [lists EXCEPT ![p] = r.list]
                /\ opened' = IF r.status = CODE_STATUS_OK
                             THEN [opened EXCEPT ![p][q] = TRUE] ELSE opened
                /\ UNCHANGED << dirs, hvar, enqd, deqd, mixed, run >>
       ELSE /\ run' = [run EXCEPT ![p] =
                         [ pc |-> "list_wolock", name |-> q, access |-> access,
                           mode |-> mode, users |-> 1 ]]
            /\ UNCHANGED << dirs, lists, hvar, opened, enqd, deqd, mixed >>

\* FSAL_ListFile( ".wolock" )
OpenListWoLock(p) ==
    /\ run[p].pc = "list_wolock"
    /\ IF FSAL_ListFile(dirs[run[p].name].files, ".wolock")
       THEN OpenReturn(p)
       ELSE OpenGoto(p, "list_rwlock")

\* FSAL_ListFile( ".rwlock" )
OpenListRwLock(p) ==
    /\ run[p].pc = "list_rwlock"
    /\ IF FSAL_ListFile(dirs[run[p].name].files, ".rwlock")
       THEN OpenReturn(p)
       ELSE OpenGoto(p, "list_rolock")

\* FSAL_ListFile( ".rolock" ) of the busy test
OpenListRoLock(p) ==
    /\ run[p].pc = "list_rolock"
    /\ IF /\ FSAL_ListFile(dirs[run[p].name].files, ".rolock")
          /\ run[p].access # ACCESS_TYPE_READ_ONLY
       THEN OpenReturn(p)
       ELSE OpenGoto(p, "lock")

\* the first filesystem call of "create the appropriate lock file": for
\* read-only access the FSAL_ListFile that tells the first user from a
\* further one, else the FSAL_OpenFile that creates .wolock or .rwlock
OpenAddLock(p) ==
    /\ run[p].pc = "lock"
    /\ LET q == run[p].name
       IN  IF run[p].access = ACCESS_TYPE_READ_ONLY
           THEN OpenGoto(p, IF FSAL_ListFile(dirs[q].files, ".rolock")
                            THEN "ro_open" ELSE "ro_create")
           ELSE /\ dirs' = [dirs EXCEPT ![q].files =
                              AddLockFile(@, run[p].access).files]
                /\ run' = [run EXCEPT ![p].pc = "alloc"]
                /\ UNCHANGED << lists, hvar, opened, enqd, deqd, mixed >>

\* FSAL_OpenFile( ".rolock", .. | FSAL_FLAGS_CREATE )
OpenRoCreate(p) ==
    /\ run[p].pc = "ro_create"
    /\ dirs' = [dirs EXCEPT ![run[p].name].files =
                  FSAL_OpenFileCreate(@, ".rolock")]
    /\ run' = [run EXCEPT ![p].pc = "ro_init"]
    /\ UNCHANGED << lists, hvar, opened, enqd, deqd, mixed >>

\* FSAL_WriteFile of users = 1 at the start of the file just opened
OpenRoInit(p) ==
    /\ run[p].pc = "ro_init"
    /\ dirs' = [dirs EXCEPT ![run[p].name].files[".rolock"] =
                  FSAL_WriteFile(@, 0, << run[p].users >>)]
    /\ run' = [run EXCEPT ![p].pc = "alloc"]
    /\ UNCHANGED << lists, hvar, opened, enqd, deqd, mixed >>

\* FSAL_OpenFile( ".rolock", .. ) and FSAL_ReadFile of one byte into users
OpenRoRead(p) ==
    /\ run[p].pc = "ro_open"
    /\ LET got == FSAL_ReadFile(dirs[run[p].name].files[".rolock"], 0, 1)
       IN  IF Len(got) = 1
           THEN /\ run' = [run EXCEPT ![p].pc = "ro_write",
                                      ![p].users = U8(got[1] + 1)]
                /\ UNCHANGED << dirs, lists, hvar, opened, enqd, deqd, mixed >>
           ELSE OpenReturn(p)

\* FSAL_WriteFile of the incremented users behind the byte that was read
\* variant: the count written where it is read from, at offset 0
OpenRoWriteAtStart(p) ==
    /\ run[p].pc = "ro_write"
    /\ dirs' = [dirs EXCEPT ![run[p].name].files[".rolock"] =
                  FSAL_WriteFile(@, 0, << run[p].users >>)]
    /\ run' = [run EXCEPT ![p].pc = "alloc"]
    /\ UNCHANGED << lists, hvar, opened, enqd, deqd, mixed >>

OpenRoWrite(p) ==
    /\ run[p].pc = "ro_write"
    /\ dirs' = [dirs EXCEPT ![run[p].name].files[".rolock"] =
                  FSAL_WriteFile(@, 1, << run[p].users >>)]
    /\ run' = [run EXCEPT ![p].pc = "alloc"]
    /\ UNCHANGED << lists, hvar, opened, enqd, deqd, mixed >>

\* "get a valid fifo handle" and return
OpenAlloc(p) ==
    /\ run[p].pc = "alloc"
    /\ LET q == run[p].name
       IN  IF AvailableSlots(lists[p]) # {}
           THEN LET index == MinOf(AvailableSlots(lists[p]))
                IN  /\ lists' = [lists EXCEPT ![p][index] =
                                   AllocatedSlot(index, q, run[p].access,
                                                 run[p].mode)]
                    /\ hvar' = [hvar EXCEPT ![p][q] = index]
                    /\ opened' = [opened EXCEPT ![p][q] = TRUE]
           ELSE UNCHANGED << lists, hvar, opened >>
    /\ run' = [run EXCEPT ![p] = NotRunning]
    /\ UNCHANGED << dirs, enqd, deqd, mixed >>

(***************************************************************************)
(* SpecRace: the processes open one queue, their filesystem calls          *)
(* interleaved.  No process closes, so a lock file once made stays.        *)
(***************************************************************************)
NextRace ==
    \/ CreateCall(1, "q1", 1, 1, 0)
    \/ \E p \in Procs, a \in AccessTypes, m \in AccessModes :
          OpenBegin(p, "q1", a, m)
    \/ \E p \in Procs : OpenListWoLock(p)
    \/ \E p \in Procs : OpenListRwLock(p)
    \/ \E p \in Procs : OpenListRoLock(p)
    \/ \E p \in Procs : OpenAddLock(p)
    \/ \E p \in Procs : OpenRoCreate(p)
    \/ \E p \in Procs : OpenRoInit(p)
    \/ \E p \in Procs : OpenRoRead(p)
    \/ \E p \in Procs : OpenRoWrite(p)
    \/ \E p \in Procs : OpenAlloc(p)

SpecRace == Init /\ [][NextRace]_vars

(***************************************************************************)
(* SpecTable: one process opens one queue after the other, of one more     *)
(* queue than its handle table has slots, and closes none.  It starts      *)
(* after the Create of every one of them.                                  *)
(***************************************************************************)
TableNames ==
    { "t" \o ToString(i) : i \in 1..(DATA_QUEUE_FILE_HANDLE_LIST_MAX + 1) }

InitTable ==
    /\ dirs = [q \in TableNames |->
                 DataQ_FifoCreate([n \in {q} |-> NoDir], q, 1, 1, 0).dirs[q]]
    /\ lists = [p \in Procs |-> InitHandleList]
    /\ hvar = [p \in Procs |-> [q \in TableNames |-> NoHandle]]
    /\ opened = [p \in Procs |-> [q \in TableNames |-> FALSE]]
    /\ enqd = [q \in TableNames |-> <<>>]
    /\ deqd = [q \in TableNames |-> <<>>]
    /\ mixed = [q \in TableNames |-> FALSE]
    /\ run = [p \in Procs |-> NotRunning]

NextTable ==
    \E q \in TableNames :
      /\ ~opened[1][q]
      /\ OpenCall(1, q, ACCESS_TYPE_READ_WRITE, ACCESS_MODE_BINARY_PACKED)

SpecTable == InitTable /\ [][NextTable]_vars

(***************************************************************************)
(* Properties of the data operations (checked under SpecFifo)              *)
(***************************************************************************)
\* process p holds a handle it opened on queue q with write access
HoldsWriter(p, q) ==
    /\ opened[p][q]
    /\ ValidHandle(hvar[p][q])
    /\ lists[p][hvar[p][q]].name = q
    /\ WriteAccess(lists[p][hvar[p][q]].access)

\* what a buffer of `size` bytes receives of a payload
Received(payload, size) == SubSeq(payload, 1, Min(size, Len(payload)))

\* `got` is what some buffer of the caller received of the payload
ReceivedOf(got, payload) ==
    \E size \in BufferSizes : got = Received(payload, size)

\* the queue's length as GetLength reports it through p's handle
LengthOf(ds, p, q) == DataQ_FifoGetLength(ds, lists[p], hvar[p][q])

\* C1: FIFO round trip.  On a freshly created queue of capacity max_entries,
\* after k <= max_entries successful enqueues of p1..pk and no enqueue after
\* a dequeue, the dequeues made so far returned p1, p2, ... in order, and
\* while fewer than k have been made the next Dequeue through a handle with
\* write access returns OK and yields the next payload.
C1_RoundTrip ==
    \A p \in Procs, q \in QNames :
      LET N == dirs[q].hdr.max_entries
          E == Len(enqd[q])
          D == Len(deqd[q])
      IN  (dirs[q].present /\ ~mixed[q] /\ E <= N) =>
            /\ D <= E
            /\ \A i \in 1..D : ReceivedOf(deqd[q][i], enqd[q][i])
            /\ (D < E /\ HoldsWriter(p, q)) =>
                 \A size \in BufferSizes :
                   LET r == DataQ_FifoDequeue(dirs, lists[p], hvar[p][q], size)
                   IN  /\ r.status = CODE_STATUS_OK
                       /\ r.data = Received(enqd[q][D + 1], size)

\* a queue filled to its capacity of MaxEntries with payloads that differ,
\* and drained again, every payload having come back whole
C1_Witness ==
    /\ dirs["q1"].present
    /\ dirs["q1"].hdr.max_entries = MaxEntries
    /\ ~mixed["q1"]
    /\ Len(enqd["q1"]) = MaxEntries
    /\ enqd["q1"][1] # enqd["q1"][2]
    /\ deqd["q1"] = enqd["q1"]

HoldsHandle(p, q) ==
    /\ opened[p][q]
    /\ ValidHandle(hvar[p][q])
    /\ lists[p][hvar[p][q]].name = q

\* C3 as the specification states it: GetLength returns
\* min(max(E - D, 0), max_entries) for E successful enqueues and D
\* successful dequeues since Create, in whatever order they were made.
C3_LengthClamped ==
    \A p \in Procs, q \in QNames :
      LET N == dirs[q].hdr.max_entries
          E == Len(enqd[q])
          D == Len(deqd[q])
          L == LengthOf(dirs, p, q)
      IN  (dirs[q].present /\ HoldsHandle(p, q) /\ L.status = CODE_STATUS_OK) =>
            L.length = Min(Max(E - D, 0), N)

\* C3: GetLength returns the number of entries the queue holds, between 0
\* and max_entries = N: 0 before the first enqueue; a successful Enqueue on
\* a queue of length L leaves min(L + 1, N) and a successful Dequeue leaves
\* L - 1; so when the E enqueues were all made before the D dequeues the
\* length is min(E, N) - D.
C3_Length ==
    \A p \in Procs, q \in QNames :
      LET N == dirs[q].hdr.max_entries
          E == Len(enqd[q])
          D == Len(deqd[q])
          L == LengthOf(dirs, p, q)
      IN  /\ (dirs[q].present /\ HoldsHandle(p, q)) =>
               /\ L.status = CODE_STATUS_OK
               /\ L.length \in 0..N
               /\ (E = 0 => L.length = 0)
               /\ (~mixed[q] => L.length = Min(E, N) - D)
          /\ (dirs[q].present /\ HoldsWriter(p, q)) =>
               /\ \A d \in Payloads :
                    LET r == DataQ_FifoEnqueue(dirs, lists[p], hvar[p][q],
                                               d, Len(d))
                    IN  /\ r.status = CODE_STATUS_OK
                        /\ LengthOf(r.dirs, p, q).status = CODE_STATUS_OK
                        /\ LengthOf(r.dirs, p, q).length = Min(L.length + 1, N)
               /\ \A size \in BufferSizes :
                    LET r == DataQ_FifoDequeue(dirs, lists[p], hvar[p][q], size)
                    IN  r.status = CODE_STATUS_OK =>
                          /\ LengthOf(r.dirs, p, q).status = CODE_STATUS_OK
                          /\ LengthOf(r.dirs, p, q).length = L.length - 1

\* a queue of capacity 2 after three enqueues and then one dequeue: GetLength
\* returns 1, where min(max(E - D, 0), max_entries) is 2
C3_Witness ==
    /\ dirs["q1"].present
    /\ dirs["q1"].hdr.max_entries = 2
    /\ HoldsHandle(1, "q1")
    /\ ~mixed["q1"]
    /\ Len(enqd["q1"]) = 3
    /\ Len(deqd["q1"]) = 1
    /\ LengthOf(dirs, 1, "q1") = [ status |-> CODE_STATUS_OK, length |-> 1 ]

\* C4 as the specification states it: through a handle with write access,
\* Dequeue returns QUEUE_IS_EMPTY whenever num_of_entries is 0, also on a
\* queue of more than one entry that was filled and drained.
C4_EmptyWhenDrained ==
    \A p \in Procs, q \in QNames :
      (dirs[q].present /\ HoldsWriter(p, q)
         /\ dirs[q].hdr.num_of_entries = 0) =>
        \A size \in BufferSizes :
          DataQ_FifoDequeue(dirs, lists[p], hvar[p][q], size).status
            = CODE_ERROR_QUEUE_IS_EMPTY

(***************************************************************************)
(* Properties of the lock files (checked under Spec, every call atomic)    *)
(***************************************************************************)
\* the lock files of queue q
LockFiles(q) ==
    { n \in { ".rolock", ".wolock", ".rwlock" } :
        FSAL_ListFile(dirs[q].files, n) }

\* the processes whose successful Open of q has not been closed
Holders(q) == { p \in Procs : HoldsHandle(p, q) }

\* those of them that opened q read-only
Readers(q) ==
    { p \in Holders(q) : lists[p][hvar[p][q]].access = ACCESS_TYPE_READ_ONLY }

C6_OneLockOneUser ==
    \A q \in QNames :
      /\ Cardinality(LockFiles(q)) <= 1
      /\ WriterLocked(dirs[q].files) => Cardinality(Holders(q)) = 1

\* C7 as the specification states it: while processes hold the queue
\* read-only, .rolock exists and the count read from it is their number.
C7_ReaderCount ==
    \A q \in QNames :
      Readers(q) # {} =>
        /\ FSAL_ListFile(dirs[q].files, ".rolock")
        /\ FSAL_ReadFile(dirs[q].files[".rolock"], 0, 1)
             = << Cardinality(Readers(q)) >>

(***************************************************************************)
(* Properties of the handle table (checked under SpecHandles)              *)
(***************************************************************************)
\* C9 as the specification states it: the queues a process holds open at
\* the same time have distinct handles, and the slot behind each handle
\* names the queue it was opened for.
C9_DistinctHandles ==
    \A p \in Procs, q \in QNames :
      opened[p][q] =>
        /\ ValidHandle(hvar[p][q])
        /\ lists[p][hvar[p][q]].name = q
        /\ \A o \in QNames \ {q} : opened[p][o] => hvar[p][o] # hvar[p][q]

\* C10 as the specification states it: a second Open with the access and
\* mode the process already holds the queue with returns OK and leaves the
\* filesystem, the handle table and the caller's handle as they are.
C10_ReopenIdempotent ==
    \A p \in Procs, q \in QNames :
      HoldsHandle(p, q) =>
        LET slot == lists[p][hvar[p][q]]
            r    == DataQ_FifoOpen(dirs, lists[p], q, slot.access, slot.mode,
                                   hvar[p][q])
        IN  /\ r.status = CODE_STATUS_OK
            /\ r.dirs = dirs
            /\ r.list = lists[p]
            /\ r.handle = hvar[p][q]

(***************************************************************************)
(* Properties of interleaved Opens (checked under SpecRace)                *)
(***************************************************************************)
\* C8 as the specification states it: of the Opens of processes whose
\* filesystem calls interleave on a queue nobody holds, at most one returns
\* OK unless all of them asked for read-only access.
C8_AtomicAcquire ==
    \A q \in QNames :
      Cardinality(Holders(q)) >= 2 => Holders(q) = Readers(q)

(***************************************************************************)
(* Error codes of Open, the data operations and Destroy                    *)
(***************************************************************************)
\* C11 as the specification states it (checked under SpecHandles): while a
\* process holds a queue, its Open of the same name with another access
\* type or another mode returns QUEUE_OPENED and leaves the filesystem and
\* the handle table as they are.
C11_ReopenMismatch ==
    \A p \in Procs, q \in QNames, a \in AccessTypes, m \in AccessModes :
      LET slot == lists[p][hvar[p][q]]
          r    == DataQ_FifoOpen(dirs, lists[p], q, a, m, hvar[p][q])
      IN  (HoldsHandle(p, q) /\ (a # slot.access \/ m # slot.mode)) =>
            /\ r.status = CODE_ERROR_QUEUE_OPENED
            /\ r.dirs = dirs
            /\ r.list = lists[p]

\* C12 as the specification states it (checked under SpecTable): when a
\* process holds DATA_QUEUE_FILE_HANDLE_LIST_MAX queues, its Open of a
\* further queue that has no lock file returns HANDLE_NOT_AVAIL and leaves
\* the handle table as it is.
C12_HandleNotAvail ==
    \A p \in Procs :
      Cardinality({ q \in TableNames : opened[p][q] })
          = DATA_QUEUE_FILE_HANDLE_LIST_MAX =>
        \A q \in TableNames, a \in AccessTypes, m \in AccessModes :
          LET r == DataQ_FifoOpen(dirs, lists[p], q, a, m, hvar[p][q])
          IN  (~opened[p][q] /\ ~AnyLockFile(dirs[q].files)) =>
                /\ r.status = CODE_ERROR_HANDLE_NOT_AVAIL
                /\ r.list = lists[p]

\* process p's handle variable for q points at a slot that a successful
\* Close has cleared
HoldsClosed(p, q) ==
    /\ ~opened[p][q]
    /\ ValidHandle(hvar[p][q])
    /\ lists[p][hvar[p][q]] = ClearedSlot

\* C13 as the specification states it (checked under SpecFifo): through a
\* handle that Open returned and Close has since closed, Enqueue, Dequeue,
\* Seek, GetEntry and GetLength return INVALID_HANDLE.
C13_ClosedHandleInvalid ==
    \A p \in Procs, q \in QNames :
      HoldsClosed(p, q) =>
        LET h == hvar[p][q]
        IN  /\ \A d \in Payloads :
                 DataQ_FifoEnqueue(dirs, lists[p], h, d, Len(d)).status
                   = CODE_ERROR_INVALID_HANDLE
            /\ \A size \in BufferSizes :
                 DataQ_FifoDequeue(dirs, lists[p], h, size).status
                   = CODE_ERROR_INVALID_HANDLE
            /\ \A t \in SeekTypes :
                 DataQ_FifoSeek(dirs, lists[p], h, t, 0).status
                   = CODE_ERROR_INVALID_HANDLE
            /\ \A size \in BufferSizes, terminated \in BOOLEAN :
                 DataQ_FifoGetEntry(dirs, lists[p], h, size, terminated).status
                   = CODE_ERROR_INVALID_HANDLE
            /\ DataQ_FifoGetLength(dirs, lists[p], h).status
                 = CODE_ERROR_INVALID_HANDLE

\* C14 as the specification states it (checked under Spec): while a lock
\* file of the queue exists or the calling process holds a handle naming
\* the queue, Destroy returns QUEUE_IS_BUSY and leaves the directory and
\* its files as they are.
C14_DestroyBusy ==
    \A p \in Procs, q \in QNames :
      LET r == DataQ_FifoDestroy(dirs, lists[p], q)
      IN  (dirs[q].present /\ (LockFiles(q) # {} \/ HoldsHandle(p, q))) =>
            /\ r.status = CODE_ERROR_QUEUE_IS_BUSY
            /\ r.dirs = dirs

(***************************************************************************)
(* Invariants of the persisted header and LUT (checked under SpecFifo)     *)
(***************************************************************************)
\* C15: ring invariant I1.  In the header of every existing queue head and
\* tail are below max_entries and num_of_entries is at most max_entries,
\* and whenever num_of_entries > 0,
\* tail_lut_offs = (head_lut_offs + num_of_entries - 1) mod max_entries.
C15_Ring ==
    \A q \in QNames :
      LET hdr == dirs[q].hdr
      IN  dirs[q].present =>
            /\ hdr.head_lut_offs \in 0..(hdr.max_entries - 1)
            /\ hdr.tail_lut_offs \in 0..(hdr.max_entries - 1)
            /\ hdr.num_of_entries \in 0..hdr.max_entries
            /\ hdr.num_of_entries > 0 =>
                 hdr.tail_lut_offs =
                   (hdr.head_lut_offs + hdr.num_of_entries - 1)
                      % hdr.max_entries

\* a queue of MaxEntries slots whose live range wraps: two entries, the
\* older in the last slot and the newer in slot 0
C15_Witness ==
    /\ dirs["q1"].present
    /\ dirs["q1"].hdr.max_entries = MaxEntries
    /\ dirs["q1"].hdr.num_of_entries = 2
    /\ dirs["q1"].hdr.head_lut_offs = MaxEntries - 1
    /\ dirs["q1"].hdr.tail_lut_offs = 0

\* C16 as the specification states it: empty invariant I2, in every
\* persisted header num_of_entries = 0 if and only if
\* head_lut_offs = tail_lut_offs.
C16_EmptyIff ==
    \A q \in QNames :
      dirs[q].present =>
        (dirs[q].hdr.num_of_entries = 0
           <=> dirs[q].hdr.head_lut_offs = dirs[q].hdr.tail_lut_offs)

\* C16: num_of_entries = 0 if and only if every slot of the LUT is the
\* empty sentinel.  head = tail does not tell the empty queue: it holds for
\* every queue of one entry, and of an empty queue only before its first
\* dequeue or when max_entries = 1; the queue emptied by a dequeue has
\* head = (tail + 1) mod max_entries.  head = tail implies at most one entry.
C16_Empty ==
    \A q \in QNames :
      LET hdr == dirs[q].hdr
      IN  dirs[q].present =>
            /\ hdr.num_of_entries = 0 <=> DOMAIN dirs[q].lut.slots = {}
            /\ hdr.num_of_entries = 1 => hdr.head_lut_offs = hdr.tail_lut_offs
            /\ hdr.head_lut_offs = hdr.tail_lut_offs => hdr.num_of_entries <= 1
            /\ hdr.num_of_entries = 0 =>
                 \/ hdr.head_lut_offs = hdr.tail_lut_offs
                 \/ hdr.head_lut_offs =
                      NextOffs(hdr.tail_lut_offs, hdr.max_entries)
            /\ (hdr.num_of_entries = 0 /\ Len(deqd[q]) > 0
                  /\ hdr.max_entries > 1) =>
                 hdr.head_lut_offs # hdr.tail_lut_offs

\* a queue of MaxEntries > 1 slots filled and drained: no entry, every LUT
\* slot empty, and head one past tail
C16_Witness ==
    /\ dirs["q1"].present
    /\ dirs["q1"].hdr.max_entries = MaxEntries
    /\ Len(enqd["q1"]) = MaxEntries
    /\ Len(deqd["q1"]) = MaxEntries
    /\ dirs["q1"].hdr.num_of_entries = 0
    /\ DOMAIN dirs["q1"].lut.slots = {}
    /\ dirs["q1"].hdr.head_lut_offs # dirs["q1"].hdr.tail_lut_offs

\* the slots of the live range: num_of_entries slots from head, mod
\* max_entries
LiveRange(hdr) ==
    { (hdr.head_lut_offs + i) % hdr.max_entries :
        i \in 0..(hdr.num_of_entries - 1) }

\* C17: seek invariant I3.  In the header of every existing queue
\* seek_lut_offs is a slot of the live range when num_of_entries > 0 and
\* equals head_lut_offs when num_of_entries = 0; a Dequeue, and an Enqueue
\* on the full queue, that removes the entry under seek leaves seek at the
\* new head.
C17_Seek ==
    \A p \in Procs, q \in QNames :
      LET hdr == dirs[q].hdr
      IN  dirs[q].present =>
            /\ hdr.num_of_entries > 0 => hdr.seek_lut_offs \in LiveRange(hdr)
            /\ hdr.num_of_entries = 0 => hdr.seek_lut_offs = hdr.head_lut_offs
            /\ (HoldsWriter(p, q) /\ hdr.seek_lut_offs = hdr.head_lut_offs) =>
                 /\ \A size \in BufferSizes :
                      LET r == DataQ_FifoDequeue(dirs, lists[p], hvar[p][q],
                                                 size)
                      IN  r.status = CODE_STATUS_OK =>
                            r.dirs[q].hdr.seek_lut_offs
                              = NextOffs(hdr.head_lut_offs, hdr.max_entries)
                 /\ \A d \in Payloads :
                      LET r == DataQ_FifoEnqueue(dirs, lists[p], hvar[p][q],
                                                 d, Len(d))
                      IN  (r.status = CODE_STATUS_OK /\ FifoIsFull(hdr)) =>
                            /\ r.dirs[q].hdr.head_lut_offs
                                 = NextOffs(hdr.head_lut_offs, hdr.max_entries)
                            /\ r.dirs[q].hdr.seek_lut_offs
                                 = r.dirs[q].hdr.head_lut_offs

\* a random-access queue of MaxEntries slots after a dequeue, its live range
\* wrapping around the end of the ring, with the seek offset moved off the
\* head to slot 0 by Seek or GetEntry
C17_Witness ==
    /\ dirs["q1"].present
    /\ dirs["q1"].hdr.flags = FLAGS_RANDOM_ACCESS
    /\ dirs["q1"].hdr.max_entries = MaxEntries
    /\ dirs["q1"].hdr.num_of_entries = MaxEntries - 1
    /\ Len(deqd["q1"]) > 0
    /\ dirs["q1"].hdr.head_lut_offs = MaxEntries - 1
    /\ dirs["q1"].hdr.seek_lut_offs = 0

\* the slot of the persisted LUT at offset offs
LutSlot(q, offs) == CacheSlot(LutCache(dirs[q].lut), offs)

\* C18: payload invariant I4 (existence).  In every existing queue each
\* slot of the live range holds a tag, not the empty sentinel, and a file
\* named by the tag exists in the queue directory.
C18_PayloadExists ==
    \A q \in QNames :
      dirs[q].present =>
        \A offs \in LiveRange(dirs[q].hdr) :
          /\ LutSlot(q, offs) # ZeroSlot
          /\ FSAL_ListFile(dirs[q].files, SlotName(LutSlot(q, offs), 1))

\* a full queue of MaxEntries slots after one overwrite: the live range
\* starts in slot 1 and wraps
C18_Witness ==
    /\ dirs["q1"].present
    /\ dirs["q1"].hdr.max_entries = MaxEntries
    /\ dirs["q1"].hdr.num_of_entries = MaxEntries
    /\ dirs["q1"].hdr.head_lut_offs = 1
    /\ Len(enqd["q1"]) = MaxEntries + 1
    /\ Len(deqd["q1"]) = 0

\* the payload file of the live entry in slot offs of queue q in ds
PayloadFile(ds, q, offs) ==
    ds[q].files[SlotName(CacheSlot(LutCache(ds[q].lut), offs), 1)]

\* C19 as the specification states it: no live entry's payload is longer
\* than the max_entry_size given at Create, also after an Enqueue whose
\* size exceeds max_entry_size.
C19_SizeBound ==
    \A p \in Procs, q \in QNames :
      (dirs[q].present /\ HoldsWriter(p, q)) =>
        \A d \in Payloads \cup { Payload(MaxPayload + 1) } :
          LET r == DataQ_FifoEnqueue(dirs, lists[p], hvar[p][q], d, Len(d))
          IN  \A offs \in LiveRange(r.dirs[q].hdr) :
                Len(PayloadFile(r.dirs, q, offs))
                  <= r.dirs[q].hdr.max_entry_size

(***************************************************************************)
(* Seek and GetEntry (checked under SpecFifo)                              *)
(***************************************************************************)
\* the payloads of the live entries of q, oldest first, when no enqueue
\* followed a dequeue: of the E payloads enqueued the last min(E, N), less
\* the D already dequeued
LivePayloads(q) ==
    LET N == dirs[q].hdr.max_entries
        E == Len(enqd[q])
        D == Len(deqd[q])
    IN  SubSeq(enqd[q], Max(E - N, 0) + D + 1, E)

\* Seek(seek_type, position) and then GetEntry through p's handle on q
SeekThenGet(p, q, seek_type, position, size, terminated) ==
    LET s == DataQ_FifoSeek(dirs, lists[p], hvar[p][q], seek_type, position)
        g == DataQ_FifoGetEntry(s.dirs, lists[p], hvar[p][q], size, terminated)
    IN  [ seek |-> s.status, status |-> g.status, data |-> g.data ]

\* C20 as the specification states it: on a random-access queue of n > 0
\* entries, through a handle with read access, Seek(HEAD) and then GetEntry
\* returns OK and the payload the next Dequeue would return, and
\* Seek(POSITION, i) and then GetEntry returns OK and the (i+1)-th oldest
\* live payload for every 0 <= i < n, whatever the stack of GetEntry held.
C20_SeekThenRead ==
    \A p \in Procs, q \in QNames :
      LET hdr  == dirs[q].hdr
          slot == lists[p][hvar[p][q]]
      IN  ( /\ dirs[q].present
            /\ HoldsHandle(p, q)
            /\ slot.access # ACCESS_TYPE_WRITE_ONLY
            /\ hdr.flags = FLAGS_RANDOM_ACCESS
            /\ hdr.num_of_entries > 0 ) =>
            \A size \in BufferSizes, terminated \in BOOLEAN :
              /\ LET r == SeekThenGet(p, q, SEEK_TYPE_HEAD, 0, size, terminated)
                 IN  /\ r.seek = CODE_STATUS_OK
                     /\ r.status = CODE_STATUS_OK
                     /\ slot.access = ACCESS_TYPE_READ_WRITE =>
                          r.data = DataQ_FifoDequeue(dirs, lists[p],
                                                     hvar[p][q], size).data
              /\ \A i \in 0..(hdr.num_of_entries - 1) :
                   LET r == SeekThenGet(p, q, SEEK_TYPE_POSITION, i, size,
                                        terminated)
                   IN  /\ r.seek = CODE_STATUS_OK
                       /\ r.status = CODE_STATUS_OK
                       /\ ~mixed[q] =>
                            r.data = Received(LivePayloads(q)[i + 1], size)

\* what k successive GetEntry calls through p's handle on q return, starting
\* from the directories ds
RECURSIVE GetEntries(_, _, _, _, _, _)
GetEntries(ds, p, q, k, size, terminated) ==
    IF k = 0 THEN << >>
    ELSE LET g == DataQ_FifoGetEntry(ds, lists[p], hvar[p][q], size, terminated)
         IN  << [ status |-> g.status, data |-> g.data ] >>
               \o GetEntries(g.dirs, p, q, k - 1, size, terminated)

\* what k successive Dequeue calls through p's handle on q return, starting
\* from the directories ds
RECURSIVE Dequeues(_, _, _, _, _)
Dequeues(ds, p, q, k, size) ==
    IF k = 0 THEN << >>
    ELSE LET r == DataQ_FifoDequeue(ds, lists[p], hvar[p][q], size)
         IN  << r.data >> \o Dequeues(r.dirs, p, q, k - 1, size)

\* the GetEntry calls made past the youngest entry in a traversal
Overrun == 2

\* C21 as the specification states it: on a random-access queue of n > 0
\* entries, through a handle with read access, after Seek(HEAD) n successive
\* GetEntry calls return OK and the live entries from oldest to youngest,
\* and every further GetEntry returns OK and the youngest entry again,
\* whatever the stack of GetEntry held.
C21_Traversal ==
    \A p \in Procs, q \in QNames :
      LET hdr  == dirs[q].hdr
          slot == lists[p][hvar[p][q]]
          n    == hdr.num_of_entries
      IN  ( /\ dirs[q].present
            /\ HoldsHandle(p, q)
            /\ slot.access # ACCESS_TYPE_WRITE_ONLY
            /\ hdr.flags = FLAGS_RANDOM_ACCESS
            /\ n > 0 ) =>
            \A size \in BufferSizes, terminated \in BOOLEAN :
              LET s == DataQ_FifoSeek(dirs, lists[p], hvar[p][q],
                                      SEEK_TYPE_HEAD, 0)
                  t == GetEntries(s.dirs, p, q, n + Overrun, size, terminated)
              IN  /\ s.status = CODE_STATUS_OK
                  /\ \A i \in 1..(n + Overrun) :
                       /\ t[i].status = CODE_STATUS_OK
                       /\ ~mixed[q] =>
                            t[i].data
                              = Received(LivePayloads(q)[Min(i, n)], size)
                       /\ slot.access = ACCESS_TYPE_READ_WRITE =>
                            t[i].data
                              = Dequeues(dirs, p, q, n, size)[Min(i, n)]

\* process p holds a handle it opened on queue q with read access
HoldsReader(p, q) ==
    /\ HoldsHandle(p, q)
    /\ lists[p][hvar[p][q]].access # ACCESS_TYPE_WRITE_ONLY

\* C22 as the specification states it: through a handle with read access,
\* whenever num_of_entries is 0, Seek on a random-access queue and GetEntry
\* return QUEUE_IS_EMPTY, also on a queue of more than one entry that was
\* filled and drained.
C22_EmptyWhenDrained ==
    \A p \in Procs, q \in QNames :
      (dirs[q].present /\ HoldsReader(p, q)
         /\ dirs[q].hdr.num_of_entries = 0) =>
        /\ dirs[q].hdr.flags = FLAGS_RANDOM_ACCESS =>
             \A t \in SeekTypes, i \in 0..MaxEntries :
               DataQ_FifoSeek(dirs, lists[p], hvar[p][q], t, i).status
                 = CODE_ERROR_QUEUE_IS_EMPTY
        /\ \A size \in BufferSizes, terminated \in BOOLEAN :
             DataQ_FifoGetEntry(dirs, lists[p], hvar[p][q], size,
                                terminated).status
               = CODE_ERROR_QUEUE_IS_EMPTY

\* the position arguments a caller passes to Seek: below, inside and beyond
\* the live range
SeekPositions == (0 - 2)..(MaxEntries + 1)

\* C23 as the specification states it: on a random-access queue that is not
\* empty, through a handle with read access, Seek(HEAD, p) and Seek(TAIL, p)
\* return OK and store head / tail as the seek offset for every p, and
\* Seek returns INVALID_SEEK only for the type POSITION.
C23_PositionIgnored ==
    \A p \in Procs, q \in QNames :
      LET hdr == dirs[q].hdr
      IN  ( /\ dirs[q].present
            /\ HoldsReader(p, q)
            /\ hdr.flags = FLAGS_RANDOM_ACCESS
            /\ hdr.num_of_entries > 0 ) =>
            \A position \in SeekPositions :
              LET head == DataQ_FifoSeek(dirs, lists[p], hvar[p][q],
                                         SEEK_TYPE_HEAD, position)
                  tail == DataQ_FifoSeek(dirs, lists[p], hvar[p][q],
                                         SEEK_TYPE_TAIL, position)
              IN  /\ head.status = CODE_STATUS_OK
                  /\ head.dirs[q].hdr.seek_lut_offs = hdr.head_lut_offs
                  /\ tail.status = CODE_STATUS_OK
                  /\ tail.dirs[q].hdr.seek_lut_offs = hdr.tail_lut_offs

\* C24 as the specification states it: on a random-access queue that is not
\* empty, through a handle with read access, Seek(POSITION, p) returns OK
\* exactly when 0 <= p < num_of_entries and stores (head + p) mod
\* max_entries; for every other p, negative ones included, it returns
\* INVALID_SEEK and leaves the persisted seek offset as it was.
C24_PositionRange ==
    \A p \in Procs, q \in QNames :
      LET hdr == dirs[q].hdr
      IN  ( /\ dirs[q].present
            /\ HoldsReader(p, q)
            /\ hdr.flags = FLAGS_RANDOM_ACCESS
            /\ hdr.num_of_entries > 0 ) =>
            \A position \in SeekPositions :
              LET r == DataQ_FifoSeek(dirs, lists[p], hvar[p][q],
                                      SEEK_TYPE_POSITION, position)
              IN  IF position \in 0..(hdr.num_of_entries - 1)
                  THEN /\ r.status = CODE_STATUS_OK
                       /\ r.dirs[q].hdr.seek_lut_offs
                            = (hdr.head_lut_offs + position) % hdr.max_entries
                  ELSE /\ r.status = CODE_ERROR_INVALID_SEEK
                       /\ r.dirs[q].hdr.seek_lut_offs = hdr.seek_lut_offs

\* C25 as the specification states it: after a Dequeue that returned OK,
\* and after a GetEntry that returned OK, the caller's size variable is the
\* number of payload bytes copied into the buffer, min(requested size,
\* payload length).
C25_SizeOutput ==
    \A p \in Procs, q \in QNames :
      (dirs[q].present /\ HoldsHandle(p, q)) =>
        \A size \in BufferSizes :
          /\ LET r == DataQ_FifoDequeue(dirs, lists[p], hvar[p][q], size)
             IN  r.status = CODE_STATUS_OK =>
                   /\ r.size = Len(r.data)
                   /\ r.size <= size
          /\ \A terminated \in BOOLEAN :
               LET r == DataQ_FifoGetEntry(dirs, lists[p], hvar[p][q], size,
                                           terminated)
               IN  r.status = CODE_STATUS_OK =>
                     /\ r.size = Len(r.data)
                     /\ r.size <= size

(***************************************************************************)
(* SpecCounter: the reference counter near the end of its uint16_t range. *)
(* A queue of one entry that took c enqueues, each followed by a dequeue,  *)
(* is the queue just created but for reference_count = c: head, tail and   *)
(* seek are back at slot 0, the LUT and the directory hold no entry.  The  *)
(* process starts with such a queue opened for reading and writing.        *)
(***************************************************************************)
\* the counts c the runs start from: none, and the last ones before 2^16
RefStarts == { 0 } \cup ((65536 - MaxEnq)..65535)

InitCounter ==
    \E c \in RefStarts :
      LET made == DataQ_FifoCreate([q \in QNames |-> NoDir], "q1", 1,
                                   MaxPayload, 0)
          o    == DataQ_FifoOpen(made.dirs, InitHandleList, "q1",
                                 ACCESS_TYPE_READ_WRITE,
                                 ACCESS_MODE_BINARY_PACKED, NoHandle)
      IN  /\ dirs = [o.dirs EXCEPT !["q1"].hdr.reference_count = c]
          /\ lists = [p \in Procs |->
                        IF p = 1 THEN o.list ELSE InitHandleList]
          /\ hvar = [p \in Procs |-> [q \in QNames |->
                       IF p = 1 /\ q = "q1" THEN o.handle ELSE NoHandle]]
          /\ opened = [p \in Procs |-> [q \in QNames |->
                         p = 1 /\ q = "q1"]]
          /\ enqd = [q \in QNames |-> <<>>]
          /\ deqd = [q \in QNames |-> <<>>]
          /\ mixed = [q \in QNames |-> FALSE]
          /\ run = [p \in Procs |-> NotRunning]

NextCounter ==
    \/ \E d \in Payloads : EnqueueCall(1, "q1", d, Len(d))
    \/ \E n \in BufferSizes : DequeueCall(1, "q1", n)

SpecCounter == InitCounter /\ [][NextCounter]_vars

\* C26 as the specification states it (checked under SpecCounter): every
\* Enqueue that returns OK writes a reference_count greater than or equal
\* to the one it read, after any number of enqueues.
C26_RefMonotone ==
    \A p \in Procs, q \in QNames :
      (dirs[q].present /\ HoldsWriter(p, q)) =>
        \A d \in Payloads :
          LET r == DataQ_FifoEnqueue(dirs, lists[p], hvar[p][q], d, Len(d))
          IN  r.status = CODE_STATUS_OK =>
                r.dirs[q].hdr.reference_count >= dirs[q].hdr.reference_count

(***************************************************************************)
(* SpecAccess: one process holds a handle it opened read-only or           *)
(* write-only on q1, which has one entry, never closes it, and works on a  *)
(* second queue q2 through the handle its Open of q2 returns.  The lock    *)
(* file of q1 tells, in every state, the access q1 was opened with.        *)
(***************************************************************************)
InitAccess ==
    \E a \in { ACCESS_TYPE_READ_ONLY, ACCESS_TYPE_WRITE_ONLY } :
      LET c1 == DataQ_FifoCreate([q \in QNames |-> NoDir], "q1", 2,
                                 MaxPayload, FLAGS_RANDOM_ACCESS)
          c2 == DataQ_FifoCreate(c1.dirs, "q2", 2, MaxPayload,
                                 FLAGS_RANDOM_ACCESS)
          w  == DataQ_FifoOpen(c2.dirs, InitHandleList, "q1",
                               ACCESS_TYPE_READ_WRITE,
                               ACCESS_MODE_BINARY_PACKED, NoHandle)
          e  == DataQ_FifoEnqueue(w.dirs, w.list, w.handle, Payload(1), 1)
          x  == DataQ_FifoClose(e.dirs, w.list, w.handle, FALSE)
          o  == DataQ_FifoOpen(x.dirs, x.list, "q1", a,
                               ACCESS_MODE_BINARY_PACKED, w.handle)
      IN  /\ dirs = o.dirs
          /\ lists = [p \in Procs |->
                        IF p = 1 THEN o.list ELSE InitHandleList]
          /\ hvar = [p \in Procs |-> [q \in QNames |->
                       IF p = 1 /\ q = "q1" THEN o.handle ELSE NoHandle]]
          /\ opened = [p \in Procs |-> [q \in QNames |->
                         p = 1 /\ q = "q1"]]
          /\ enqd = [q \in QNames |->
                       IF q = "q1" THEN << Payload(1) >> ELSE << >>]
          /\ deqd = [q \in QNames |-> << >>]
          /\ mixed = [q \in QNames |-> FALSE]
          /\ run = [p \in Procs |-> NotRunning]

NextAccess ==
    \/ \E a \in AccessTypes : OpenCall(1, "q2", a, ACCESS_MODE_BINARY_PACKED)
    \/ CloseCall(1, "q2")
    \/ \E d \in Payloads : EnqueueCall(1, "q2", d, Len(d))
    \/ \E n \in BufferSizes : DequeueCall(1, "q2", n)
    \/ \E t \in SeekTypes, i \in 0..2 : SeekCall(1, "q2", t, i)
    \/ \E n \in BufferSizes : GetEntryCall(1, "q2", n)

SpecAccess == InitAccess /\ [][NextAccess]_vars

\* the files of a queue directory that hold payloads
PayloadFiles(files) ==
    [ n \in DOMAIN files \ { ".rolock", ".wolock", ".rwlock" } |-> files[n] ]

\* what the queues in ds hold: head, tail, count and reference counter of
\* every header, every LUT and every payload file
QueueContents(ds) ==
    [ q \in DOMAIN ds |->
        [ head_lut_offs   |-> ds[q].hdr.head_lut_offs,
          tail_lut_offs   |-> ds[q].hdr.tail_lut_offs,
          num_of_entries  |-> ds[q].hdr.num_of_entries,
          reference_count |-> ds[q].hdr.reference_count,
          lut             |-> ds[q].lut,
          payloads        |-> PayloadFiles(ds[q].files) ] ]

\* the access rules for the handle h of process p: ro and wo say that the
\* handle was opened read-only, write-only
AccessEnforced(p, h, ro, wo) ==
    /\ ro => /\ \A d \in Payloads :
                  LET r == DataQ_FifoEnqueue(dirs, lists[p], h, d, Len(d))
                  IN  /\ r.status = CODE_ERROR_QUEUE_READ_ONLY
                      /\ QueueContents(r.dirs) = QueueContents(dirs)
             /\ \A size \in BufferSizes :
                  LET r == DataQ_FifoDequeue(dirs, lists[p], h, size)
                  IN  /\ r.status = CODE_ERROR_QUEUE_READ_ONLY
                      /\ QueueContents(r.dirs) = QueueContents(dirs)
             /\ \A t \in SeekTypes, i \in 0..MaxEntries :
                  QueueContents(DataQ_FifoSeek(dirs, lists[p], h, t, i).dirs)
                    = QueueContents(dirs)
             /\ \A size \in BufferSizes, terminated \in BOOLEAN :
                  QueueContents(DataQ_FifoGetEntry(dirs, lists[p], h, size,
                                                   terminated).dirs)
                    = QueueContents(dirs)
             /\ \A keep \in BOOLEAN :
                  QueueContents(DataQ_FifoClose(dirs, lists[p], h, keep).dirs)
                    = QueueContents(dirs)
    /\ wo => /\ \A t \in SeekTypes, i \in 0..MaxEntries :
                  DataQ_FifoSeek(dirs, lists[p], h, t, i).status
                    = CODE_ERROR_QUEUE_WRITE_ONLY
             /\ \A size \in BufferSizes, terminated \in BOOLEAN :
                  DataQ_FifoGetEntry(dirs, lists[p], h, size,
                                     terminated).status
                    = CODE_ERROR_QUEUE_WRITE_ONLY

\* C27 as the specification states it (checked under SpecAccess): in every
\* state, Enqueue and Dequeue through the handle opened read-only return
\* QUEUE_READ_ONLY, Seek and GetEntry through the handle opened write-only
\* return QUEUE_WRITE_ONLY, and no operation through the handle opened
\* read-only changes head, tail, count, reference counter, LUT or payload
\* files of any queue.
C27_AccessEnforced ==
    AccessEnforced(1, hvar[1]["q1"],
                   FSAL_ListFile(dirs["q1"].files, ".rolock"),
                   FSAL_ListFile(dirs["q1"].files, ".wolock"))

(***************************************************************************)
(* SpecCreate: the lock calls of Spec on a filesystem whose calls can fail *)
(* during DataQ_FifoCreate                                                 *)
(***************************************************************************)
CreateFaultCall(p, q, max_entries, max_entry_size, flags) ==
    \E fault \in CreateFaults, removed \in BOOLEAN :
      LET r == DataQ_FifoCreateFault(dirs, q, max_entries, max_entry_size,
                                     flags, fault, removed)
          ok == r.status = CODE_STATUS_OK
      IN  /\ dirs' = r.dirs
          /\ enqd' = IF ok THEN [enqd EXCEPT ![q] = <<>>] ELSE enqd
          /\ deqd' = IF ok THEN [deqd EXCEPT ![q] = <<>>] ELSE deqd
          /\ mixed' = IF ok THEN [mixed EXCEPT ![q] = FALSE] ELSE mixed
          /\ UNCHANGED << lists, hvar, opened, run >>

NextCreate ==
    \/ \E p \in Procs : CreateFaultCall(p, "q1", 1, 1, 0)
    \/ \E p \in Procs : DestroyCall(p, "q1")
    \/ \E p \in Procs, a \in AccessTypes, m \in AccessModes :
          OpenCall(p, "q1", a, m)
    \/ \E p \in Procs : CloseCall(p, "q1")

SpecCreate == Init /\ [][NextCreate]_vars

\* C28 as the specification states it (checked under SpecCreate): when a
\* filesystem step of Create fails after the directory has been created,
\* the chdir into it included, Create returns FS_ACCESS_FAIL and, the
\* removal succeeding, the directory does not exist when it returns.
C28_CreateRollback ==
    \A q \in QNames :
      ~dirs[q].present =>
        \A fault \in FaultsAfterMkdir :
          LET r == DataQ_FifoCreateFault(dirs, q, 1, 1, 0, fault, TRUE)
          IN  /\ r.status = CODE_ERROR_FS_ACCESS_FAIL
              /\ ~r.dirs[q].present

\* the int values a caller passes as access and as mode: from below 0 to
\* beyond ACCESS_TYPE_MAX
OpenArgs == (0 - 1)..(ACCESS_TYPE_MAX + 1)

\* C29 as the specification states it (checked under Spec): Open returns
\* INVALID_ARG, and creates no lock file and no handle, whenever access is
\* not one of RO, WO, RW or mode is not one of UNPACKED, BINARY_PACKED,
\* negative values and mode = 2 included.
C29_OpenInvalidArg ==
    \A p \in Procs, q \in QNames, access \in OpenArgs, mode \in OpenArgs :
      (access \notin AccessTypes \/ mode \notin AccessModes) =>
        LET r == DataQ_FifoOpen(dirs, lists[p], q, access, mode, hvar[p][q])
        IN  /\ r.status = CODE_ERROR_INVALID_ARG
            /\ r.dirs = dirs
            /\ r.list = lists[p]
            /\ r.handle = hvar[p][q]

\* C30 as the specification states it (checked under Spec): while the queue
\* directory exists, a second Close through a handle that Close has already
\* closed returns OK and changes no lock file and no handle slot.
C30_CloseIdempotent ==
    \A p \in Procs, q \in QNames :
      (HoldsClosed(p, q) /\ dirs[q].present) =>
        \A keep \in BOOLEAN :
          LET r == DataQ_FifoClose(dirs, lists[p], hvar[p][q], keep)
          IN  /\ r.status = CODE_STATUS_OK
              /\ r.dirs = dirs
              /\ r.list = lists[p]

(***************************************************************************)
(* SpecReaders: a random-access queue that a writer has filled and closed, *)
(* and the processes that open it read-only, seek and read                 *)
(***************************************************************************)
\* the directories after the payloads of seq have been enqueued, in order,
\* through handle h of the table list
RECURSIVE EnqueueAll(_, _, _, _)
EnqueueAll(ds, list, h, seq) ==
    IF seq = << >> THEN ds
    ELSE EnqueueAll(DataQ_FifoEnqueue(ds, list, h, Head(seq),
                                      Len(Head(seq))).dirs,
                    list, h, Tail(seq))

\* what the writer enqueued: one to MaxEntries payloads
FilledWith ==
    UNION { [1..k -> Payloads] : k \in 1..MaxEntries }

InitReaders ==
    \E seq \in FilledWith :
      LET c == DataQ_FifoCreate([q \in QNames |-> NoDir], "q1", MaxEntries,
                                MaxPayload, FLAGS_RANDOM_ACCESS)
          w == DataQ_FifoOpen(c.dirs, InitHandleList, "q1",
                              ACCESS_TYPE_READ_WRITE,
                              ACCESS_MODE_BINARY_PACKED, NoHandle)
          e == EnqueueAll(w.dirs, w.list, w.handle, seq)
          x == DataQ_FifoClose(e, w.list, w.handle, FALSE)
      IN  /\ dirs = x.dirs
          /\ lists = [p \in Procs |-> InitHandleList]
          /\ hvar = [p \in Procs |-> [q \in QNames |-> NoHandle]]
          /\ opened = [p \in Procs |-> [q \in QNames |-> FALSE]]
          /\ enqd = [q \in QNames |-> IF q = "q1" THEN seq ELSE << >>]
          /\ deqd = [q \in QNames |-> << >>]
          /\ mixed = [q \in QNames |-> FALSE]
          /\ run = [p \in Procs |-> NotRunning]

NextReaders ==
    \/ \E p \in Procs :
          OpenCall(p, "q1", ACCESS_TYPE_READ_ONLY, ACCESS_MODE_BINARY_PACKED)
    \/ \E p \in Procs : CloseCall(p, "q1")
    \/ \E p \in Procs, t \in SeekTypes, i \in 0..MaxEntries :
          SeekCall(p, "q1", t, i)
    \/ \E p \in Procs, n \in BufferSizes : GetEntryCall(p, "q1", n)

SpecReaders == InitReaders /\ [][NextReaders]_vars

\* the directories after one Seek or GetEntry call of process o on queue q,
\* whatever the call: every outcome
AfterOther(ds, o, q) ==
    { DataQ_FifoSeek(ds, lists[o], hvar[o][q], t, i).dirs :
        t \in SeekTypes, i \in 0..MaxEntries }
    \cup { DataQ_FifoGetEntry(ds, lists[o], hvar[o][q], n, TRUE).dirs :
             n \in BufferSizes }

\* C31 as the specification states it (checked under SpecReaders): while two
\* processes hold read-only handles on the same random-access queue,
\* Seek(POSITION, i) and then GetEntry in one of them returns the (i+1)-th
\* oldest entry, whatever Seek or GetEntry call the other makes in between.
\* GetEntry is taken with its reference string terminated.
C31_ReadersApart ==
    \A p \in Procs, o \in Procs, q \in QNames :
      ( /\ p # o
        /\ dirs[q].present
        /\ HoldsReader(p, q)
        /\ HoldsReader(o, q)
        /\ dirs[q].hdr.flags = FLAGS_RANDOM_ACCESS ) =>
        \A i \in 0..(dirs[q].hdr.num_of_entries - 1), size \in BufferSizes :
          LET s == DataQ_FifoSeek(dirs, lists[p], hvar[p][q],
                                  SEEK_TYPE_POSITION, i)
          IN  /\ s.status = CODE_STATUS_OK
              /\ \A between \in AfterOther(s.dirs, o, q) :
                   LET g == DataQ_FifoGetEntry(between, lists[p], hvar[p][q],
                                               size, TRUE)
                   IN  /\ g.status = CODE_STATUS_OK
                       /\ g.data = Received(LivePayloads(q)[i + 1], size)

(***************************************************************************)
(* SpecReadRace: the processes open one queue read-only, their filesystem  *)
(* calls interleaved as in SpecRace                                        *)
(***************************************************************************)
NextReadRace ==
    \/ CreateCall(1, "q1", 1, 1, 0)
    \/ \E p \in Procs, m \in AccessModes :
          OpenBegin(p, "q1", ACCESS_TYPE_READ_ONLY, m)
    \/ \E p \in Procs : OpenListWoLock(p)
    \/ \E p \in Procs : OpenListRwLock(p)
    \/ \E p \in Procs : OpenListRoLock(p)
    \/ \E p \in Procs : OpenAddLock(p)
    \/ \E p \in Procs : OpenRoCreate(p)
    \/ \E p \in Procs : OpenRoInit(p)
    \/ \E p \in Procs : OpenRoRead(p)
    \/ \E p \in Procs : OpenRoWrite(p)
    \/ \E p \in Procs : OpenAlloc(p)

SpecReadRace == Init /\ [][NextReadRace]_vars

(***************************************************************************)
(* The .rolock counter under interleaving (checked under SpecReadRace)     *)
(***************************************************************************)
\* the reader count as .rolock of queue q stores it: the byte Open and
\* Close read
StoredCount(q) == FSAL_ReadFile(dirs[q].files[".rolock"], 0, 1)[1]

\* C32: the .rolock counter does not count the readers.  Whenever two or
\* more processes have opened the queue read-only, in whatever order their
\* filesystem calls interleaved, the count stored in .rolock is lower than
\* the number of open readers, and the Close of any one of them deletes
\* .rolock while the others still hold their handles.
C32_RoLockRacy ==
    \A q \in QNames :
      (Cardinality(Readers(q)) >= 2 /\ FSAL_ListFile(dirs[q].files, ".rolock")) =>
        /\ StoredCount(q) < Cardinality(Readers(q))
        /\ \A p \in Readers(q), keep \in BOOLEAN :
             LET r == DataQ_FifoClose(dirs, lists[p], hvar[p][q], keep)
             IN  /\ r.status = CODE_STATUS_OK
                 /\ ~FSAL_ListFile(r.dirs[q].files, ".rolock")
                 /\ \E o \in Readers(q) \ {p} :
                      /\ lists[o][hvar[o][q]].name = q
                      /\ lists[o][hvar[o][q]].handle = hvar[o][q]

\* two processes hold the queue read-only after both took the branch of
\* the first user, each having found no .rolock before the other created
\* it: the file holds the single byte 1 that both wrote
C32_Witness ==
    /\ Cardinality(Readers("q1")) = 2
    /\ FSAL_ListFile(dirs["q1"].files, ".rolock")
    /\ dirs["q1"].files[".rolock"] = << 1 >>
    /\ \A p \in Readers("q1") : run[p].pc = "idle"

(***************************************************************************)
(* SpecRecycle: one queue whose reference count stands just before a tag   *)
(* comes round again (10^4 counts) or the 16-bit counter wraps, and whose  *)
(* first payload file was left behind by an overwrite                      *)
(***************************************************************************)
\* the directories after k dequeues through handle h of the table list
RECURSIVE DequeueAll(_, _, _, _)
DequeueAll(ds, list, h, k) ==
    IF k = 0 THEN ds
    ELSE DequeueAll(DataQ_FifoDequeue(ds, list, h, MaxPayload).dirs,
                    list, h, k - 1)

\* the reference counts the queue starts from
RecycleStarts ==
    ((Pow10(DATA_QUEUE_LUT_ENTRY_SIZE) - MaxEnq)
        ..Pow10(DATA_QUEUE_LUT_ENTRY_SIZE))
      \cup ((65536 - MaxEnq)..65535)

\* The state after Create(N), Open, N + 1 enqueues of the payload d, N
\* dequeues and then c - N - 1 times an enqueue followed by a dequeue: the
\* first payload file stays behind, the queue is drained, c enqueues have
\* moved the tail c - 1 times and the head is one past the tail.
InitRecycle ==
    \E N \in 1..MaxEntries, c \in RecycleStarts, d \in Payloads :
      LET made   == DataQ_FifoCreate([q \in QNames |-> NoDir], "q1", N,
                                     MaxPayload, 0)
          o      == DataQ_FifoOpen(made.dirs, InitHandleList, "q1",
                                   ACCESS_TYPE_READ_WRITE,
                                   ACCESS_MODE_BINARY_PACKED, NoHandle)
          filled == EnqueueAll(o.dirs, o.list, o.handle,
                               [i \in 1..(N + 1) |-> d])
          drawn  == DequeueAll(filled, o.list, o.handle, N)
      IN  /\ dirs = [drawn EXCEPT
                       !["q1"].hdr.reference_count = c,
                       !["q1"].hdr.tail_lut_offs = (c - 1) % N,
                       !["q1"].hdr.head_lut_offs = c % N,
                       !["q1"].hdr.seek_lut_offs = c % N]
          /\ lists = [p \in Procs |->
                        IF p = 1 THEN o.list ELSE InitHandleList]
          /\ hvar = [p \in Procs |-> [q \in QNames |->
                       IF p = 1 /\ q = "q1" THEN o.handle ELSE NoHandle]]
          /\ opened = [p \in Procs |-> [q \in QNames |->
                         p = 1 /\ q = "q1"]]
          /\ enqd = [q \in QNames |-> <<>>]
          /\ deqd = [q \in QNames |-> <<>>]
          /\ mixed = [q \in QNames |-> FALSE]
          /\ run = [p \in Procs |-> NotRunning]

NextRecycle ==
    \/ \E d \in Payloads : EnqueueCall(1, "q1", d, Len(d))
    \/ \E n \in BufferSizes : DequeueCall(1, "q1", n)

SpecRecycle == InitRecycle /\ [][NextRecycle]_vars

(***************************************************************************)
(* The queue as a bounded FIFO (checked under SpecRecycle)                 *)
(***************************************************************************)
\* the payloads of the live range of q in ds, read from head to tail
LiveContents(ds, q) ==
    LET hdr == ds[q].hdr
    IN  [i \in 1..hdr.num_of_entries |->
           PayloadFile(ds, q, (hdr.head_lut_offs + i - 1) % hdr.max_entries)]

\* the abstract queue of capacity N after payload d has been appended
AbstractEnqueue(queue, d, N) ==
    IF Len(queue) < N THEN Append(queue, d) ELSE Append(Tail(queue), d)

\* C33 as the specification states it: the live payloads refine a bounded
\* FIFO.  Every Enqueue that returns OK leaves the live payloads, read from
\* head to tail, equal to the abstract queue with the payload appended (its
\* front dropped when it was full); every Dequeue that returns OK returns
\* the abstract front and leaves the abstract tail; Open and Close leave
\* the live payloads as they are.
C33_Refinement ==
    \A p \in Procs, q \in QNames :
      (dirs[q].present /\ HoldsWriter(p, q)) =>
        LET queue == LiveContents(dirs, q)
            N     == dirs[q].hdr.max_entries
        IN  /\ \A d \in Payloads :
                 LET r == DataQ_FifoEnqueue(dirs, lists[p], hvar[p][q], d, Len(d))
                 IN  r.status = CODE_STATUS_OK =>
                       LiveContents(r.dirs, q) = AbstractEnqueue(queue, d, N)
            /\ \A size \in BufferSizes :
                 LET r == DataQ_FifoDequeue(dirs, lists[p], hvar[p][q], size)
                 IN  r.status = CODE_STATUS_OK =>
                       /\ queue # << >>
                       /\ r.data = Received(Head(queue), size)
                       /\ LiveContents(r.dirs, q) = Tail(queue)
            /\ \A a \in AccessTypes, m \in AccessModes :
                 LiveContents(DataQ_FifoOpen(dirs, lists[p], q, a, m,
                                             hvar[p][q]).dirs, q) = queue
            /\ \A keep \in BOOLEAN :
                 LiveContents(DataQ_FifoClose(dirs, lists[p], hvar[p][q],
                                              keep).dirs, q) = queue

(***************************************************************************)
(* Reference tags of the live window (checked under SpecRecycle)           *)
(***************************************************************************)
\* the largest max_entries a queue can have: the field is one byte
WindowMax == 255

\* the tags of any WindowMax consecutive counts that include the wrap of
\* the 16-bit counter are pairwise different
TagsApartAcrossWrap ==
    \A c \in (65536 - WindowMax)..65535, k \in 1..(WindowMax - 1) :
      MintTag(c) # MintTag(U16(c + k))

\* C34: tag uniqueness in the live window.  In every reachable state no two
\* slots of the live range hold the same reference tag, also while the tag
\* comes round after 10^4 counts and while reference_count wraps from 65535
\* to 0; the same holds of every Enqueue from that state, and of windows of
\* up to 255 counts across the wrap.
C34_TagsUnique ==
    /\ TagsApartAcrossWrap
    /\ \A p \in Procs, q \in QNames :
         LET unique(ds) ==
               \A i, j \in LiveRange(ds[q].hdr) :
                 i # j => CacheSlot(LutCache(ds[q].lut), i)
                            # CacheSlot(LutCache(ds[q].lut), j)
         IN  dirs[q].present =>
               /\ unique(dirs)
               /\ HoldsWriter(p, q) =>
                    \A d \in Payloads :
                      unique(DataQ_FifoEnqueue(dirs, lists[p], hvar[p][q],
                                               d, Len(d)).dirs)

\* a full queue of more than one entry whose live tags were minted on both
\* sides of the wrap of reference_count
C34_Witness ==
    LET hdr == dirs["q1"].hdr
    IN  /\ dirs["q1"].present
        /\ hdr.max_entries > 1
        /\ hdr.num_of_entries = hdr.max_entries
        /\ hdr.reference_count = 0
        /\ CacheSlot(LutCache(dirs["q1"].lut), hdr.tail_lut_offs) = MintTag(0)
        /\ CacheSlot(LutCache(dirs["q1"].lut), hdr.head_lut_offs)
             = MintTag(65536 - hdr.max_entries + 1)

\* C35 as the specification states it: whenever Enqueue creates the payload
\* file of a newly minted tag, no file of that name exists in the queue's
\* directory, also once the tags have come round on a queue whose
\* overwrites left displaced payload files behind.
C35_FreshFile ==
    \A p \in Procs, q \in QNames :
      (dirs[q].present /\ HoldsWriter(p, q)) =>
        \A d \in Payloads :
          DataQ_FifoEnqueue(dirs, lists[p], hvar[p][q], d, Len(d)).status
              = CODE_STATUS_OK =>
            SlotName(MintTag(U16(dirs[q].hdr.reference_count + 1)), 1)
              \notin DOMAIN dirs[q].files

(***************************************************************************)
(* Lock files and handle tables (checked under SpecHandles)                *)
(***************************************************************************)
\* the processes with a slot of their handle table that names queue q
SlotHolders(q) ==
    { p \in Procs : \E i \in HandleSlots : lists[p][i].name = q }

\* C36 as the specification states it: between operations a queue has a
\* lock file if and only if some process has a handle slot that names the
\* queue; so when every slot is free again, no queue is locked.
C36_LockHandleAgree ==
    \A q \in QNames :
      dirs[q].present => (LockFiles(q) # {} <=> SlotHolders(q) # {})

(***************************************************************************)
(* The lookup table and the live range (checked under SpecFifo)            *)
(***************************************************************************)
\* a slot of DATA_QUEUE_LUT_ENTRY_SIZE ASCII decimal digits
IsTag(slot) ==
    \A i \in 1..DATA_QUEUE_LUT_ENTRY_SIZE : slot[i] \in 48..57

\* C37: agreement of LUT and live range.  In every existing queue the slots
\* of the .lut file that are not the all-zero sentinel (the slots the
\* model's lut record lists) are the slots of the live range given by
\* head_lut_offs and num_of_entries, each of them holds
\* DATA_QUEUE_LUT_ENTRY_SIZE ASCII digits, every other slot of the file,
\* those at max_entries and above included, is the sentinel; and the tag of
\* every count, also of a count that is 0 modulo 10^4, is digits and not
\* the sentinel.
C37_LutAgrees ==
    /\ \A c \in { 0, 1, Pow10(DATA_QUEUE_LUT_ENTRY_SIZE), 65535 } :
         IsTag(MintTag(c)) /\ MintTag(c) # ZeroSlot
    /\ \A q \in QNames :
         dirs[q].present =>
           /\ DOMAIN dirs[q].lut.slots = LiveRange(dirs[q].hdr)
           /\ \A offs \in DOMAIN dirs[q].lut.slots :
                /\ dirs[q].lut.slots[offs] # ZeroSlot
                /\ IsTag(LutSlot(q, offs))
                /\ offs < dirs[q].hdr.max_entries
                /\ offs < dirs[q].lut.len
           /\ \A offs \in { dirs[q].hdr.max_entries, dirs[q].lut.len - 1 } :
                offs \notin LiveRange(dirs[q].hdr) =>
                  LutSlot(q, offs) = ZeroSlot

\* a queue of MaxEntries slots after enqueues and dequeues: two entries, the
\* live range wraps from the last slot to slot 0, slot 1 is empty again,
\* and the .lut file has been rewritten with all the slots of the cache
C37_Witness ==
    /\ dirs["q1"].present
    /\ dirs["q1"].hdr.max_entries = MaxEntries
    /\ dirs["q1"].hdr.num_of_entries = 2
    /\ dirs["q1"].hdr.head_lut_offs = MaxEntries - 1
    /\ dirs["q1"].hdr.tail_lut_offs = 0
    /\ dirs["q1"].lut.len = DATAQ_LUT_SLOTS
    /\ LutSlot("q1", 1) = ZeroSlot
    /\ Len(deqd["q1"]) > 0

(***************************************************************************)
(* Calls that return an error (checked under SpecAccess)                   *)
(***************************************************************************)
\* a status other than OK and other than FS_ACCESS_FAIL
Erred(status) ==
    status # CODE_STATUS_OK /\ status # CODE_ERROR_FS_ACCESS_FAIL

\* the handles a caller passes to the data operations: the one it holds
\* for the queue, none, and one outside the table
HandlesOf(p, q) ==
    { hvar[p][q], NoHandle, DATA_QUEUE_FILE_HANDLE_LIST_MAX }

\* C38 as the specification states it: every operation that returns a
\* status other than OK and FS_ACCESS_FAIL leaves the header, the LUT, the
\* payload files and the lock files of every queue, and the handle table
\* of the caller, as they were before the call.
C38_ErrorLeavesState ==
    \A p \in Procs, q \in QNames :
      LET list == lists[p]
          same(r) == Erred(r.status) => r.dirs = dirs
          sameTable(r) == Erred(r.status) => r.list = list
      IN  /\ \A n \in 0..1, s \in 0..1, f \in { 0, FLAGS_RANDOM_ACCESS } :
               same(DataQ_FifoCreate(dirs, q, n, s, f))
          /\ same(DataQ_FifoDestroy(dirs, list, q))
          /\ \A h \in { hvar[p][q], NoHandle } :
               /\ \A a \in OpenArgs, m \in OpenArgs :
                    LET r == DataQ_FifoOpen(dirs, list, q, a, m, h)
                    IN  same(r) /\ sameTable(r)
               /\ \A keep \in BOOLEAN :
                    LET r == DataQ_FifoClose(dirs, list, h, keep)
                    IN  same(r) /\ sameTable(r)
          /\ \A h \in HandlesOf(p, q) :
               /\ \A d \in Payloads :
                    /\ same(DataQ_FifoEnqueue(dirs, list, h, d, 0))
                    /\ same(DataQ_FifoEnqueue(dirs, list, h, d, Len(d)))
               /\ \A size \in { 0 } \cup BufferSizes :
                    same(DataQ_FifoDequeue(dirs, list, h, size))
               /\ \A t \in 0..SEEK_TYPE_MAX, i \in SeekPositions :
                    same(DataQ_FifoSeek(dirs, list, h, t, i))
               /\ \A size \in { 0 } \cup BufferSizes, terminated \in BOOLEAN :
                    same(DataQ_FifoGetEntry(dirs, list, h, size, terminated))

\* a queue that process 1 filled, closed and holds read-only now: its
\* Enqueue, its Open with another access type and its Destroy all return
\* an error
C38_Witness ==
    /\ dirs["q2"].present
    /\ dirs["q2"].hdr.num_of_entries > 0
    /\ HoldsHandle(1, "q2")
    /\ lists[1][hvar[1]["q2"]].access = ACCESS_TYPE_READ_ONLY
    /\ Erred(DataQ_FifoEnqueue(dirs, lists[1], hvar[1]["q2"], Payload(1),
                               1).status)
    /\ Erred(DataQ_FifoOpen(dirs, lists[1], "q2", ACCESS_TYPE_WRITE_ONLY,
                            ACCESS_MODE_BINARY_PACKED, hvar[1]["q2"]).status)
    /\ Erred(DataQ_FifoDestroy(dirs, lists[1], "q2").status)

(***************************************************************************)
(* The adaptor's current directory (checked under SpecCreate)              *)
(***************************************************************************)
\* The calls an operation makes on directories are walked over a record of
\* the current directory (the names below the directory that holds the
\* queues; a step above it is kept as ".."), the queue directories that
\* exist, and the counts of successful changes into a queue directory and
\* back to the parent.  A call is [call, dir, ok, fault]: ok is the outcome
\* on which the code's path goes on, fault says that the filesystem failed
\* a call it could have served.
DirCall(call, dir, ok) ==
    [ call |-> call, dir |-> dir, ok |-> ok, fault |-> FALSE ]

DirFault(call, dir) ==
    [ call |-> call, dir |-> dir, ok |-> FALSE, fault |-> TRUE ]

DirStart(ds) ==
    [ cwd |-> << >>, made |-> { q \in DOMAIN ds : ds[q].present },
      ins |-> 0, outs |-> 0, agrees |-> TRUE ]

\* chdir("../")
ParentOf(cwd) ==
    IF cwd # << >> /\ cwd[Len(cwd)] # ".."
    THEN SubSeq(cwd, 1, Len(cwd) - 1) ELSE Append(cwd, "..")

\* a faulty variant of DirStep: chdir("../") is served without a change
DirStepNoAscent(st, c) ==
    LET possible ==
          CASE c.call = "chdir" /\ c.dir = "../" -> TRUE
            [] c.call = "chdir" -> st.cwd = << >> /\ c.dir \in st.made
            [] c.call = "mkdir" -> st.cwd = << >> /\ c.dir \notin st.made
            [] c.call = "rmdir" -> st.cwd = << >> /\ c.dir \in st.made
        agreed == [st EXCEPT !.agrees =
                     @ /\ (IF c.fault THEN ~c.ok ELSE c.ok = possible)]
    IN  IF ~c.ok \/ ~possible THEN agreed
        ELSE CASE c.call = "chdir" /\ c.dir = "../" ->
                    [agreed EXCEPT !.outs = @ + 1]
               [] c.call = "chdir" ->
                    [agreed EXCEPT !.cwd = << c.dir >>, !.ins = @ + 1]
               [] c.call = "mkdir" ->
                    [agreed EXCEPT !.made = @ \cup { c.dir }]
               [] c.call = "rmdir" ->
                    [agreed EXCEPT !.made = @ \ { c.dir }]

\* FSAL_ChangeDirectory, FSAL_MakeDirectory and FSAL_RemoveDirectory
DirStep(st, c) ==
    LET possible ==
          CASE c.call = "chdir" /\ c.dir = "../" -> TRUE
            [] c.call = "chdir" -> st.cwd = << >> /\ c.dir \in st.made
            [] c.call = "mkdir" -> st.cwd = << >> /\ c.dir \notin st.made
            [] c.call = "rmdir" -> st.cwd = << >> /\ c.dir \in st.made
        agreed == [st EXCEPT !.agrees =
                     @ /\ (IF c.fault THEN ~c.ok ELSE c.ok = possible)]
    IN  IF ~c.ok \/ ~possible THEN agreed
        ELSE CASE c.call = "chdir" /\ c.dir = "../" ->
                    [agreed EXCEPT !.cwd = ParentOf(@), !.outs = @ + 1]
               [] c.call = "chdir" ->
                    [agreed EXCEPT !.cwd = << c.dir >>, !.ins = @ + 1]
               [] c.call = "mkdir" ->
                    [agreed EXCEPT !.made = @ \cup { c.dir }]
               [] c.call = "rmdir" ->
                    [agreed EXCEPT !.made = @ \ { c.dir }]

RECURSIVE DirWalk(_, _)
DirWalk(st, calls) ==
    IF calls = << >> THEN st
    ELSE DirWalk(DirStep(st, Head(calls)), Tail(calls))

\* into the directory and back to the parent
InAndOut(dir) ==
    << DirCall("chdir", dir, TRUE), DirCall("chdir", "../", TRUE) >>

\* the directory calls of DataQ_FifoCreate on the path that a fault at
\* `fault` selects and that returns `status`
CreateDirCalls(fifo_name, status, fault, removed) ==
    LET absent == << DirCall("chdir", fifo_name, FALSE) >>
        undo   == IF removed THEN DirCall("rmdir", fifo_name, TRUE)
                  ELSE DirFault("rmdir", fifo_name)
    IN  IF status = CODE_ERROR_INVALID_ARG THEN << >>
        ELSE IF status = CODE_ERROR_QUEUE_EXISTS THEN InAndOut(fifo_name)
        ELSE IF status = CODE_STATUS_OK
        THEN absent \o << DirCall("mkdir", fifo_name, TRUE) >>
                    \o InAndOut(fifo_name)
        ELSE IF fault = "mkdir"
        THEN absent \o << DirFault("mkdir", fifo_name) >>
        ELSE IF fault = "chdir"
        THEN absent \o << DirCall("mkdir", fifo_name, TRUE),
                          DirFault("chdir", fifo_name) >>
        ELSE absent \o << DirCall("mkdir", fifo_name, TRUE) >>
                    \o InAndOut(fifo_name) \o << undo >>

\* the directory calls of DataQ_FifoDestroy
DestroyDirCalls(fifo_name, present, status) ==
    IF ~present THEN << DirCall("chdir", fifo_name, FALSE) >>
    ELSE IF status = CODE_ERROR_QUEUE_IS_BUSY THEN InAndOut(fifo_name)
    ELSE InAndOut(fifo_name) \o << DirCall("rmdir", fifo_name, TRUE) >>

\* the statuses returned before the first directory call
BeforeChdir ==
    { CODE_ERROR_INVALID_ARG, CODE_ERROR_INVALID_HANDLE,
      CODE_ERROR_QUEUE_READ_ONLY, CODE_ERROR_QUEUE_WRITE_ONLY }

\* the directory calls of Open, Close, Enqueue, Dequeue, Seek, GetEntry and
\* GetLength for the queue name they are given or find in the handle
QueueDirCalls(dir, status) ==
    IF status \in BeforeChdir THEN << >>
    ELSE IF status = CODE_ERROR_QUEUE_MISSING
    THEN << DirCall("chdir", dir, FALSE) >>
    ELSE InAndOut(dir)

\* the walk ends where it began, every change into a directory matched by
\* one change back, and the calls had the outcomes the path depends on
Framed(ds, calls) ==
    LET end == DirWalk(DirStart(ds), calls)
    IN  end.cwd = << >> /\ end.ins = end.outs /\ end.agrees

\* the queue name behind handle h of the table list
NameBehind(list, h) == IF ValidHandle(h) THEN list[h].name ELSE ""

\* C39: the working-directory frame.  Create, Destroy, Open, Close, Enqueue,
\* Dequeue, Seek, GetEntry and GetLength return on every path with the
\* current directory they were entered with, and every successful change
\* into the queue directory is matched by exactly one change back to the
\* parent.
C39_DirectoryFrame ==
    \A p \in Procs, q \in QNames :
      LET list == lists[p]
      IN  /\ \A n \in 0..1, fault \in CreateFaults, removed \in BOOLEAN :
               Framed(dirs, CreateDirCalls(q,
                 DataQ_FifoCreateFault(dirs, q, n, 1, 0, fault,
                                       removed).status, fault, removed))
          /\ Framed(dirs, DestroyDirCalls(q, dirs[q].present,
                            DataQ_FifoDestroy(dirs, list, q).status))
          /\ \A a \in OpenArgs, m \in AccessModes :
               Framed(dirs, QueueDirCalls(q,
                 DataQ_FifoOpen(dirs, list, q, a, m, hvar[p][q]).status))
          /\ \A h \in HandlesOf(p, q) :
               LET dir == NameBehind(list, h)
               IN  /\ h # DATA_QUEUE_FILE_HANDLE_LIST_MAX =>
                        \A keep \in BOOLEAN :
                          Framed(dirs, QueueDirCalls(dir,
                            DataQ_FifoClose(dirs, list, h, keep).status))
                   /\ \A size \in 0..1 :
                        /\ Framed(dirs, QueueDirCalls(dir,
                             DataQ_FifoEnqueue(dirs, list, h, Payload(1),
                                               size).status))
                        /\ Framed(dirs, QueueDirCalls(dir,
                             DataQ_FifoDequeue(dirs, list, h, size).status))
                        /\ Framed(dirs, QueueDirCalls(dir,
                             DataQ_FifoGetEntry(dirs, list, h, size,
                                                TRUE).status))
                   /\ \A t \in 0..SEEK_TYPE_MAX, i \in SeekPositions :
                        Framed(dirs, QueueDirCalls(dir,
                          DataQ_FifoSeek(dirs, list, h, t, i).status))
                   /\ Framed(dirs, QueueDirCalls(dir,
                        DataQ_FifoGetLength(dirs, list, h).status))

\* process 1 holds q1, so its Close changes into the directory and back
\* once; and q2 does not exist, so a Create of q2 whose header cannot be
\* written makes the directory, changes into it and back, and removes it
C39_Witness ==
    /\ dirs["q1"].present
    /\ HoldsHandle(1, "q1")
    /\ ~dirs["q2"].present
    /\ LET st == DirWalk(DirStart(dirs), QueueDirCalls("q1",
                   DataQ_FifoClose(dirs, lists[1], hvar[1]["q1"],
                                   FALSE).status))
       IN  st.ins = 1 /\ st.outs = 1
    /\ LET st == DirWalk(DirStart(dirs), CreateDirCalls("q2",
                   DataQ_FifoCreateFault(dirs, "q2", 1, 1, 0, "header",
                                         TRUE).status, "header", TRUE))
       IN  st.ins = 1 /\ st.outs = 1 /\ "q2" \notin st.made

(***************************************************************************)
(* Dequeue on a failing filesystem (checked under SpecRecycle)             *)
(***************************************************************************)
\* the head entry of q in ds is listed as live by header and LUT: it is
\* counted and its slot holds a tag
ListedAtHead(ds, q) ==
    /\ ds[q].hdr.num_of_entries > 0
    /\ CacheSlot(LutCache(ds[q].lut), ds[q].hdr.head_lut_offs) # ZeroSlot

\* invariant I4 for the head entry of q in ds: its slot holds a tag and a
\* file of that name exists
HeadPayloadExists(ds, q) ==
    LET slot == CacheSlot(LutCache(ds[q].lut), ds[q].hdr.head_lut_offs)
    IN  slot # ZeroSlot /\ FSAL_ListFile(ds[q].files, SlotName(slot, 1))

\* the calls of a Dequeue that deletes a payload file and then fails at
\* `fault`, from the current state
FailedDequeues(p, q, fault) ==
    { r \in { DataQ_FifoDequeueFault(dirs, lists[p], hvar[p][q], size, fault) :
                size \in BufferSizes } :
        DataQ_FifoDequeue(dirs, lists[p], hvar[p][q], MaxPayload).status
          = CODE_STATUS_OK }

\* C40 as the specification states it: when the rewrite of the LUT or of
\* the header fails after the head payload file has been deleted, Dequeue
\* returns FS_ACCESS_FAIL and header and LUT are as before the call and
\* still list the deleted entry as live, so that I4 is violated.
C40_NoRollback ==
    \A p \in Procs, q \in QNames :
      (dirs[q].present /\ HoldsWriter(p, q)) =>
        \A fault \in DequeueFaults \ { "none" } :
          \A r \in FailedDequeues(p, q, fault) :
            /\ r.status = CODE_ERROR_FS_ACCESS_FAIL
            /\ r.dirs[q].hdr = dirs[q].hdr
            /\ r.dirs[q].lut = dirs[q].lut
            /\ ListedAtHead(r.dirs, q)
            /\ ~HeadPayloadExists(r.dirs, q)

\* C40: no rollback in Dequeue.  When the rewrite of the LUT or of the
\* header fails after the head payload file has been deleted, Dequeue
\* returns FS_ACCESS_FAIL, the file stays deleted and the header is as
\* before the call, so it still counts the entry and I4 is violated.  When
\* the LUT could not be rewritten, its head slot still holds the tag of the
\* deleted file; when only the header could not be rewritten, the LUT has
\* been rewritten and the head slot of the live range is the empty
\* sentinel.
C40_NoRollbackInDequeue ==
    \A p \in Procs, q \in QNames :
      (dirs[q].present /\ HoldsWriter(p, q)) =>
        LET head == dirs[q].hdr.head_lut_offs
            tag  == CacheSlot(LutCache(dirs[q].lut), head)
        IN  \A fault \in DequeueFaults \ { "none" } :
              \A r \in FailedDequeues(p, q, fault) :
                /\ r.status = CODE_ERROR_FS_ACCESS_FAIL
                /\ ~FSAL_ListFile(r.dirs[q].files, SlotName(tag, 1))
                /\ r.dirs[q].hdr = dirs[q].hdr
                /\ r.dirs[q].hdr.num_of_entries > 0
                /\ ~HeadPayloadExists(r.dirs, q)
                /\ fault = "lut" =>
                     /\ r.dirs[q].lut = dirs[q].lut
                     /\ CacheSlot(LutCache(r.dirs[q].lut), head) = tag
                /\ fault = "header" =>
                     CacheSlot(LutCache(r.dirs[q].lut), head) = ZeroSlot

\* a queue of MaxEntries entries, full, held by process 1 with write
\* access: its Dequeue deletes the head payload file, and with the header
\* rewrite failing leaves a counted entry whose slot is empty
C40_Witness ==
    /\ dirs["q1"].present
    /\ HoldsWriter(1, "q1")
    /\ dirs["q1"].hdr.max_entries = MaxEntries
    /\ dirs["q1"].hdr.num_of_entries = MaxEntries
    /\ FailedDequeues(1, "q1", "header") # {}
    /\ \A r \in FailedDequeues(1, "q1", "header") :
         /\ r.status = CODE_ERROR_FS_ACCESS_FAIL
         /\ ~ListedAtHead(r.dirs, "q1")

====
